---- MODULE Spec2Model ----
(***************************************************************************)
(* The HTTP request-execution pipeline of ab_request.http_client:          *)
(* BaseClient (configuration, _make_request, _make_request_and_format,     *)
(* request), DefaultResponseFormatter, ThreadPoolAsyncExecutor and the     *)
(* CacheClientMixin with its in-memory backend.                            *)
(*                                                                         *)
(* Python values: an optional value is a sequence of length 0 (None, or a  *)
(* key absent from a dict) or 1 (the value).  Strings that the code takes  *)
(* apart (endpoints, URLs) are sequences of one-character strings.         *)
(***************************************************************************)
EXTENDS Integers, Sequences, FiniteSets, TLC

VARIABLES client, last, cache, now, request_list, futures, results, pc, threads, lock

vars == <<client, last, cache, now, request_list, futures, results, pc, threads, lock>>

\* ------------------------------------------------------------------ bounds
\* largest `retries` / retry_config["total"] given to the constructor
MaxRetries == 2
\* longest request list handed to the executor
MaxBatch == 3
\* largest max_workers of the thread pool
MaxWorkers == 2
\* number of calls made on one caching client
MaxCalls == 2
\* last instant of the clock (seconds)
MaxTime == 2
\* largest maxsize of the in-memory cache backend
MaxSize == 2
\* number of calls the threads make on one cache backend
MaxBackendCalls == 3
\* the recursion limit of the interpreter, scaled to the objects of the model
RecursionLimit == 6
\* the items of a container of the object graphs hashed
MaxItems == 1
\* the length of the query strings escaped
MaxQueryLen == 3
\* the longest batch whose termination is checked
MaxLiveBatch == 2

\* ------------------------------------------------------------ Python values
None == <<>>
Some(x) == <<x>>
IsNone(o) == o = <<>>
Val(o) == o[1]
\* dict.get(key, default)
Get(o, default) == IF IsNone(o) THEN default ELSE Val(o)

\* str.lstrip("/") and str.rstrip("/") on a sequence of characters
RECURSIVE LStrip(_)
LStrip(s) == IF s # <<>> /\ Head(s) = "/" THEN LStrip(Tail(s)) ELSE s

RECURSIVE RStrip(_)
RStrip(s) == IF s # <<>> /\ s[Len(s)] = "/" THEN RStrip(SubSeq(s, 1, Len(s) - 1)) ELSE s

\* --------------------------------------------------- constants (constants.py)
\* ab_request/http_client/constants.py is not part of the sources at hand; the
\* values below follow the specification (reserved negative sentinels, the
\* retry status set, idempotent methods as retry allow-set, no exception on
\* an exhausted status retry) and the older client in ab_request/client.py.
RESPONSE_CODE_NON_HTTP_ERROR == -1
RESPONSE_CODE_FORMATTING_ERROR == -2
RESPONSE_CODE_UNEXPECTED_TYPE == -3
DEFAULT_RETRIES == 3
DEFAULT_RETRY_CONFIG ==
    [total |-> 3,
     status_forcelist |-> {429, 500, 502, 503, 504},
     allowed_methods |-> {"HEAD", "GET", "PUT", "DELETE", "OPTIONS", "TRACE"},
     raise_on_status |-> FALSE]
CACHEABLE_METHODS == {"GET", "HEAD"}
DEFAULT_CACHE_EXPIRE == 2

\* ------------------------------------------------------------ request specs
\* A request spec is a dict; every key is optional.
RequestSpec(method, endpoint, params, filename, cacheFlag, cache_expire) ==
    [method |-> method, endpoint |-> endpoint, params |-> params,
     filename |-> filename, cache |-> cacheFlag, cache_expire |-> cache_expire]

\* the keyword arguments requests.Session.request accepts besides method and url
SessionRequestKwargs ==
    {"params", "data", "headers", "cookies", "files", "auth", "allow_redirects",
     "proxies", "hooks", "stream", "verify", "cert", "json"}

\* the keys of the spec dict
SpecKeys(spec) ==
    {k \in {"method", "endpoint", "params", "filename", "cache", "cache_expire"} :
        ~IsNone(spec[k])}

\* ------------------------------------------------------- BaseClient.__init__
\* retry_config argument: the entries it overrides (total, allowed_methods)
NoRetryConfigArg == [total |-> None, allowed_methods |-> None]

MergeRetryConfig(classConfig, arg) ==
    [classConfig EXCEPT
        !.total = Get(arg.total, @),
        !.allowed_methods = Get(arg.allowed_methods, @)]

NewClient(retriesArg, retryConfigArg, parser, formatter, max_workers) ==
    LET merged == MergeRetryConfig(DEFAULT_RETRY_CONFIG, retryConfigArg) IN
    [base_url |-> RStrip(<<"B", "/">>),
     class_default_endpoint |-> <<>>,
     class_default_method |-> "GET",
     retries |-> Get(retriesArg, DEFAULT_RETRIES),
     retry_config |-> IF IsNone(retriesArg) THEN merged
                      ELSE [merged EXCEPT !.total = Val(retriesArg)],
     parser |-> parser,
     formatter |-> formatter,
     max_workers |-> max_workers]

\* ------------------------------------------------- BaseClient._create_session
\* mutant: the mounted policy retries every method
SessionRetryAnyMethod(c) ==
    [total |-> IF c.retries > 0 THEN c.retry_config.total ELSE 0,
     read |-> c.retries > 0,
     status_forcelist |-> IF c.retries > 0 THEN c.retry_config.status_forcelist ELSE {},
     allowed_methods |-> {"HEAD", "GET", "PUT", "DELETE", "OPTIONS", "TRACE", "POST"},
     raise_on_status |-> ~(c.retries > 0)]

\* The retry policy of the adapter that serves the session's requests: the
\* mounted HTTPAdapter(max_retries=Retry(**retry_config)) when retries > 0,
\* else the session's stock adapter, whose policy is Retry(0, read=False).
SessionRetry(c) ==
    IF c.retries > 0
    THEN [total |-> c.retry_config.total,
          read |-> TRUE,
          status_forcelist |-> c.retry_config.status_forcelist,
          allowed_methods |-> c.retry_config.allowed_methods,
          raise_on_status |-> c.retry_config.raise_on_status]
    ELSE [total |-> 0,
          read |-> FALSE,
          status_forcelist |-> {},
          allowed_methods |-> {"HEAD", "GET", "PUT", "DELETE", "OPTIONS", "TRACE"},
          raise_on_status |-> TRUE]

\* ------------------------------------------------------------ the transport
\* What one attempt on the wire can end in: a response with a status, a
\* failure while connecting (timeout, refused) or while reading the response
\* (timeout, connection reset).
Statuses == {200, 304, 404, 503}
Resp(s) == [k |-> "response", s |-> s]
Fail(k) == [k |-> k, s |-> 0]
ConnectFailures == {"connect_timeout", "connect_error"}
ReadFailures == {"read_timeout", "read_error"}
AttemptOutcomes ==
    {Resp(s) : s \in Statuses} \cup {Fail(k) : k \in ConnectFailures \cup ReadFailures}

\* what session.request hands back or raises
Returned(s) == [k |-> "response", s |-> s, exc |-> "none"]
Raised(e) == [k |-> "raise", s |-> 0, exc |-> e]

\* the requests exception for a failure that is raised without a retry left
\* to count (HTTPAdapter.send, the except clauses after urlopen)
DirectFailure(k) ==
    CASE k = "connect_timeout" -> "ConnectTimeout"
      [] k = "read_timeout" -> "ReadTimeout"
      [] OTHER -> "ConnectionError"

\* the requests exception for urllib3's MaxRetryError, by its reason
\* (HTTPAdapter.send: ConnectTimeoutError -> ConnectTimeout, ResponseError ->
\* RetryError, anything else, a read timeout included -> ConnectionError)
ExhaustedFailure(k) ==
    CASE k = "connect_timeout" -> "ConnectTimeout"
      [] k = "response" -> "RetryError"
      [] OTHER -> "ConnectionError"

\* Retry.is_retry / Retry.increment: is this outcome counted against the
\* policy (and re-issued while the count allows) for this method?
Counted(retry, method, o) ==
    CASE o.k = "response" ->
            method \in retry.allowed_methods /\ o.s \in retry.status_forcelist
      [] o.k \in ConnectFailures -> TRUE
      [] OTHER -> retry.read /\ method \in retry.allowed_methods

\* The runs of one session.request call: each is the sequence of attempt
\* outcomes on the wire and the final response or exception.  `total` is the
\* number of retries the policy still allows.
RECURSIVE Send(_, _, _, _)
Send(retry, method, total, trace) ==
    UNION { LET t == Append(trace, o) IN
            IF ~Counted(retry, method, o)
            THEN {[attempts |-> t,
                   final |-> IF o.k = "response" THEN Returned(o.s)
                             ELSE Raised(DirectFailure(o.k))]}
            ELSE IF total - 1 < 0
            THEN {[attempts |-> t,
                   final |-> IF o.k = "response" /\ ~retry.raise_on_status
                             THEN Returned(o.s)
                             ELSE Raised(ExhaustedFailure(o.k))]}
            ELSE Send(retry, method, total - 1, t)
          : o \in AttemptOutcomes }

\* ------------------------------------------------- BaseClient._make_request
\* the URL of a request: base_url and endpoint joined by one slash
Url(c, spec) ==
    LET endpoint == Get(spec.endpoint, c.class_default_endpoint) IN
    IF endpoint # <<>> THEN c.base_url \o <<"/">> \o LStrip(endpoint) ELSE c.base_url

\* the HTTP method a request is sent with
Method(c, spec) == Get(spec.method, c.class_default_method)

\* the keys of request_kwargs that come from the spec
RequestKwargs(spec) == SpecKeys(spec) \ {"method", "endpoint"}

\* mutant: every status from 300 on is taken for an error
RaisesForStatusFrom300(s) == 300 <= s /\ s < 600

\* Response.raise_for_status raises HTTPError for 4xx and 5xx
RaisesForStatus(s) == 400 <= s /\ s < 600

\* bool(response): Response.__bool__ is Response.ok, false for 4xx and 5xx
ResponseTruthy(s) == ~RaisesForStatus(s)

StatusText(s) ==
    CASE s = 0 -> "0" [] s = 200 -> "200" [] s = 304 -> "304"
      [] s = 404 -> "404" [] s = 503 -> "503" [] OTHER -> "n"

\* exceptions.py: the APIClientError objects; status_code is an attribute of
\* APIClientHTTPError only
APIClientTimeoutError(url) ==
    [type |-> "APIClientTimeoutError", has_status_code |-> FALSE, status_code |-> None,
     message |-> <<"Request to ">> \o url \o <<" timed out">>]

APIClientNetworkError(url, original) ==
    [type |-> "APIClientNetworkError", has_status_code |-> FALSE, status_code |-> None,
     message |-> <<"Request to ">> \o url \o <<" failed: ", original>>]

APIClientHTTPError(message, s) ==
    [type |-> "APIClientHTTPError", has_status_code |-> TRUE,
     status_code |-> IF ResponseTruthy(s) THEN Some(s) ELSE None,
     message |-> message]

NoError == [type |-> "none", has_status_code |-> FALSE, status_code |-> None, message |-> <<>>]

\* the except clause of _make_request: requests exception -> APIClientError
ConvertException(url, final) ==
    IF final.exc \in {"ConnectTimeout", "ReadTimeout"} THEN APIClientTimeoutError(url)
    ELSE IF final.exc = "HTTPError"
    THEN LET status_code == IF ResponseTruthy(final.s) THEN final.s ELSE 0 IN
         APIClientHTTPError(
            <<"HTTP ", StatusText(status_code), ": ",
              IF ResponseTruthy(final.s) THEN "reason" ELSE "No response">>,
            final.s)
    ELSE APIClientNetworkError(url, final.exc)

\* _make_request on one run of the transport: the response, the converted
\* APIClientError, or an exception that is no RequestException (the call of
\* session.request with a keyword it does not take is a TypeError, raised
\* before anything is sent)
MakeRequest(c, spec, run) ==
    LET url == Url(c, spec) IN
    IF ~(RequestKwargs(spec) \subseteq SessionRequestKwargs)
    THEN [k |-> "raise", s |-> 0, url |-> url, error |-> NoError, exc |-> "TypeError",
          attempts |-> <<>>]
    ELSE IF run.final.k = "response" /\ ~RaisesForStatus(run.final.s)
    THEN [k |-> "response", s |-> run.final.s, url |-> url, error |-> NoError,
          exc |-> "none", attempts |-> run.attempts]
    ELSE [k |-> "error", s |-> 0, url |-> url,
          error |-> ConvertException(url,
                       IF run.final.k = "response"
                       THEN [k |-> "raise", s |-> run.final.s, exc |-> "HTTPError"]
                       ELSE run.final),
          exc |-> "none", attempts |-> run.attempts]

\* the runs session.request can take for this client and spec
Runs(c, spec) ==
    LET retry == SessionRetry(c) IN Send(retry, Method(c, spec), retry.total, <<>>)

\* --------------------------------------------------------- parser, formatter
\* JSONResponseParser.parse: response.json() is the decoded body (here the body
\* echoes the URL requested) or raises when the body is no JSON
ParseOk(url) == Some(<<"json:">> \o url)
ParseErrorText == "JSONDecodeError"

Envelope(result, code, message, data) ==
    [result |-> result, code |-> code, message |-> message, data |-> data]

NoEnvelope == Envelope(FALSE, None, <<>>, None)

\* mutant: the formatter does not look at parse_error
DefaultFormatIgnoringParseError(made, parsed_data, parse_error) ==
    IF made.k = "response"
    THEN Envelope(TRUE, Some(made.s), <<"Success">>, parsed_data)
    ELSE Envelope(FALSE, Some(RESPONSE_CODE_NON_HTTP_ERROR), made.error.message, None)

\* DefaultResponseFormatter.format
\*   made: the outcome of _make_request, parsed_data, parse_error: optional
DefaultFormat(made, parsed_data, parse_error) ==
    IF made.k = "response"
    THEN IF ~IsNone(parse_error)
         THEN Envelope(FALSE, Some(made.s), <<"Parsing failed: ", Val(parse_error)>>, None)
         ELSE Envelope(TRUE, Some(made.s), <<"Success">>, parsed_data)
    ELSE IF made.k = "error"
    THEN Envelope(FALSE,
                  IF made.error.has_status_code /\ ~IsNone(made.error.status_code)
                  THEN made.error.status_code
                  ELSE Some(RESPONSE_CODE_NON_HTTP_ERROR),
                  made.error.message, None)
    ELSE Envelope(FALSE, Some(RESPONSE_CODE_UNEXPECTED_TYPE),
                  <<"Unexpected response/exception type: ", made.exc>>, None)

\* _make_request_and_format, step 6: no formatter configured
NoFormatterEnvelope(made, parsed_data, parse_error) ==
    IF made.k = "response"
    THEN IF ~IsNone(parse_error)
         THEN Envelope(FALSE, Some(made.s), <<"Parsing failed: ", Val(parse_error)>>, None)
         ELSE Envelope(TRUE, Some(made.s), <<"Success (No formatter)">>,
                       IF ~IsNone(parsed_data) THEN parsed_data
                       ELSE Some(<<"<Response>">> \o made.url))
    ELSE Envelope(FALSE,
                  IF made.error.has_status_code THEN made.error.status_code
                  ELSE Some(RESPONSE_CODE_NON_HTTP_ERROR),
                  made.error.message, None)

\* the text of the exception a raising formatter raises
FormatterErrorText == "boom"

\* mutant: the fallback of a raising formatter is the default formatter's
\* envelope
FormatOrFallbackToDefault(c, made, parsed_data, parse_error) ==
    DefaultFormat(made, parsed_data, parse_error)

\* _make_request_and_format, step 5: the configured formatter, with the
\* fallback envelope when it raises
FormatOrFallback(c, made, parsed_data, parse_error) ==
    IF c.formatter = "raising"
    THEN Envelope(FALSE, Some(RESPONSE_CODE_FORMATTING_ERROR),
                  <<"Formatting failed: ", FormatterErrorText>>, None)
    ELSE DefaultFormat(made, parsed_data, parse_error)

\* ---------------------------------------- BaseClient._make_request_and_format
\* One call, for one run of the transport and one body (bodyOk: the parser can
\* decode it).  The value tells what the caller gets (an envelope, or the
\* exception that propagates) and what was called on the way.
MakeRequestAndFormat(c, spec, run, bodyOk) ==
    LET made == MakeRequest(c, spec, run)
        parses == made.k = "response" /\ c.parser # "none"
        parsed_data == IF parses /\ bodyOk THEN ParseOk(made.url) ELSE None
        parse_error == IF parses /\ ~bodyOk THEN Some(ParseErrorText) ELSE None
    IN
    IF made.k = "raise"
    THEN [raised |-> made.exc, envelope |-> NoEnvelope, made |-> made,
          parse_error |-> None,
          transport_calls |-> Len(made.attempts), parser_calls |-> 0,
          formatter_calls |-> 0]
    ELSE [raised |-> "none",
          envelope |-> IF c.formatter # "none"
                       THEN FormatOrFallback(c, made, parsed_data, parse_error)
                       ELSE NoFormatterEnvelope(made, parsed_data, parse_error),
          made |-> made,
          parse_error |-> parse_error,
          transport_calls |-> Len(made.attempts),
          parser_calls |-> IF parses THEN 1 ELSE 0,
          formatter_calls |-> IF c.formatter # "none" THEN 1 ELSE 0]

\* every outcome one call of _make_request_and_format can have
Outcomes(c, spec) ==
    { MakeRequestAndFormat(c, spec, run, bodyOk) :
        run \in Runs(c, spec), bodyOk \in BOOLEAN }

\* ------------------------------------------------------------------ inputs
Methods == {"GET", "POST"}
Endpoints == {<<"a">>, <<"/", "a">>}

\* specs for the single-request executor
PipelineSpecs ==
    { RequestSpec(m, Some(e), None, f, None, None) :
        m \in {None} \cup {Some(x) : x \in Methods},
        e \in Endpoints,
        f \in {None, Some(<<"f">>)} }

RetryConfigArgs ==
    {NoRetryConfigArg,
     [total |-> Some(1), allowed_methods |-> None],
     [total |-> None,
      allowed_methods |-> Some(DEFAULT_RETRY_CONFIG.allowed_methods \cup {"POST"})]}

PipelineClients ==
    { NewClient(r, rc, p, f, 1) :
        r \in {None} \cup {Some(n) : n \in 0..MaxRetries},
        rc \in RetryConfigArgs,
        p \in {"json", "none"},
        f \in {"default", "none", "raising"} }

NoCall == [called |-> FALSE, spec |-> RequestSpec(None, None, None, None, None, None),
           out |-> [raised |-> "none", envelope |-> NoEnvelope,
                    made |-> [k |-> "none", s |-> 0, url |-> <<>>, error |-> NoError,
                              exc |-> "none", attempts |-> <<>>],
                    parse_error |-> None,
                    transport_calls |-> 0, parser_calls |-> 0, formatter_calls |-> 0]]

\* ------------------------------------------- the single-request executor
InitPipeline ==
    /\ client \in PipelineClients
    /\ last = NoCall
    /\ cache = <<>>
    /\ now = 0
    /\ threads = <<>>
    /\ lock = None
    /\ request_list = <<>>
    /\ futures = <<>>
    /\ results = <<>>
    /\ pc = "idle"

\* client.request(spec) for a dict: one call of _make_request_and_format
CallMakeRequestAndFormat ==
    /\ pc = "idle"
    /\ ~last.called
    /\ \E spec \in PipelineSpecs :
         \E out \in Outcomes(client, spec) :
            last' = [called |-> TRUE, spec |-> spec, out |-> out]
    /\ UNCHANGED <<client, cache, now, request_list, futures, results, pc, threads, lock>>

NextPipeline == CallMakeRequestAndFormat

SpecPipeline == InitPipeline /\ [][NextPipeline]_vars

\* ------------------------------------------- properties of a single request
\* the last attempt on the wire of the call made
LastAttempt == last.out.made.attempts[Len(last.out.made.attempts)]
Sent == last.called /\ last.out.made.attempts # <<>>
Enveloped == last.called /\ last.out.raised = "none"

\* C1: for every request spec and every outcome of transport, parser and
\* formatter, _make_request_and_format returns an envelope and lets no
\* exception propagate to its caller.
C1_NeverRaises == last.called => last.out.raised = "none"

\* C6 (as claimed): with the default formatter the envelope is successful if
\* and only if the transport returned a 2xx response and the parser did not
\* raise.
C6_SuccessIff2xx ==
    (Enveloped /\ Sent /\ client.formatter = "default") =>
        (last.out.envelope.result <=>
            /\ LastAttempt.k = "response"
            /\ 200 <= LastAttempt.s /\ LastAttempt.s < 300
            /\ IsNone(last.out.parse_error))

\* C6 (amended): with the default formatter the envelope is successful if and
\* only if the transport returned a response whose status is no 4xx or 5xx
\* and the parser did not raise.
C6_SuccessIffNoErrorStatus ==
    (Enveloped /\ Sent /\ client.formatter = "default") =>
        (last.out.envelope.result <=>
            /\ LastAttempt.k = "response"
            /\ ~(400 <= LastAttempt.s /\ LastAttempt.s < 600)
            /\ IsNone(last.out.parse_error))

C6_Witness ==
    /\ Enveloped /\ Sent /\ client.formatter = "default"
    /\ LastAttempt = Resp(304)
    /\ last.out.envelope.result
    /\ last.out.envelope.code = Some(304)

\* C7: an HTTP error status s gives success=false, data=null and code s; a
\* timeout or a connection-level failure gives the non-HTTP sentinel as code.
C7_ErrorCode ==
    (Enveloped /\ Sent /\ client.formatter = "default") =>
        /\ (LastAttempt.k = "response" /\ 400 <= LastAttempt.s /\ LastAttempt.s < 600) =>
              /\ ~last.out.envelope.result
              /\ IsNone(last.out.envelope.data)
              /\ last.out.envelope.code = Some(LastAttempt.s)
        /\ LastAttempt.k # "response" =>
              last.out.envelope.code = Some(RESPONSE_CODE_NON_HTTP_ERROR)

\* C8: with max_retries n and a retry-allowed method, a transport that always
\* answers 503 is called exactly n+1 times and the final envelope has
\* success=false and code=503.
C8_RetryExhaustion ==
    (/\ Enveloped /\ Sent /\ client.formatter = "default"
     /\ client.retry_config.total = client.retries
     /\ Method(client, last.spec) \in client.retry_config.allowed_methods
     /\ \A i \in 1..Len(last.out.made.attempts) : last.out.made.attempts[i] = Resp(503))
    => /\ last.out.transport_calls = client.retries + 1
       /\ ~last.out.envelope.result
       /\ last.out.envelope.code = Some(503)

\* the default client configuration
DefaultConfigured ==
    client.retries = DEFAULT_RETRIES /\ client.retry_config = DEFAULT_RETRY_CONFIG

C9_PostOnce ==
    (/\ Sent /\ DefaultConfigured
     /\ Method(client, last.spec) = "POST"
     /\ last.out.made.attempts[1] = Resp(503))
    => last.out.transport_calls = 1

C10_LastCauseSurfaces ==
    (/\ Enveloped /\ Sent
     /\ client.retries > 0 /\ client.retry_config.total > 0
     /\ Len(last.out.made.attempts) = client.retry_config.total + 1
     /\ last.out.made.k = "error")
    => CASE LastAttempt.k \in {"connect_timeout", "read_timeout"} ->
                last.out.made.error.type = "APIClientTimeoutError"
         [] LastAttempt.k = "response" ->
                /\ last.out.made.error.type = "APIClientHTTPError"
                /\ last.out.made.error.status_code = Some(LastAttempt.s)
         [] OTHER -> last.out.made.error.type = "APIClientNetworkError"

\* the parser raised on the response of the call made
ParserRaised == Enveloped /\ Sent /\ ~IsNone(last.out.parse_error)

\* C11: when the transport returns a response with status s and the parser
\* raises, nothing more is sent (the response with status s is the last
\* attempt), the configured formatter is still invoked, and the envelope has
\* success=false, code=s and data=null, with the default formatter and with
\* no formatter configured.
C11_ParseErrorKeepsStatus ==
    (ParserRaised /\ client.formatter \in {"default", "none"}) =>
        /\ last.out.made.k = "response"
        /\ LastAttempt = Resp(last.out.made.s)
        /\ last.out.transport_calls = Len(last.out.made.attempts)
        /\ last.out.formatter_calls = (IF client.formatter = "default" THEN 1 ELSE 0)
        /\ ~last.out.envelope.result
        /\ last.out.envelope.code = Some(last.out.made.s)
        /\ IsNone(last.out.envelope.data)

C11_Witness ==
    /\ ParserRaised /\ client.formatter = "default"
    /\ last.out.made.attempts = <<Resp(503), Resp(200)>>
    /\ last.out.envelope.code = Some(200)
    /\ ~last.out.envelope.result

\* the envelope _make_request_and_format falls back to
FallbackEnvelope ==
    Envelope(FALSE, Some(RESPONSE_CODE_FORMATTING_ERROR),
             <<"Formatting failed: ", FormatterErrorText>>, None)

\* C12: if the configured formatter raises, for a response as well as for a
\* failed transport call, _make_request_and_format returns the fallback
\* envelope (success=false, the formatting-error sentinel as code, a message
\* holding the formatter's exception text, data=null) and raises nothing.
C12_FormatterFailureFallback ==
    (last.called /\ client.formatter = "raising" /\ last.out.formatter_calls = 1) =>
        /\ last.out.raised = "none"
        /\ last.out.envelope = FallbackEnvelope
        /\ \E i \in 1..Len(last.out.envelope.message) :
              last.out.envelope.message[i] = FormatterErrorText
        /\ last.out.made.k \in {"response", "error"}

C12_Witness ==
    /\ last.called /\ client.formatter = "raising" /\ last.out.formatter_calls = 1
    /\ last.out.made.k = "error"
    /\ last.out.made.error.type = "APIClientTimeoutError"
    /\ last.out.envelope.code = Some(RESPONSE_CODE_FORMATTING_ERROR)

\* ------------------------------------------------------ InMemoryCacheBackend
\* The OrderedDict is a sequence of entries, least recently used first;
\* expire_at is optional.
Entry(key, value, expire_at) == [key |-> key, value |-> value, expire_at |-> expire_at]

Keys(store) == {store[i].key : i \in 1..Len(store)}
IndexOf(store, key) == CHOOSE i \in 1..Len(store) : store[i].key = key
Without(store, key) == SelectSeq(store, LAMBDA e : e.key # key)
Expired(e, t) == ~IsNone(e.expire_at) /\ t >= Val(e.expire_at)

\* InMemoryCacheBackend.get: the value (None on a miss or an expired entry)
\* and the store it leaves behind
CacheGet(store, key, t) ==
    IF key \notin Keys(store) THEN [value |-> None, store |-> store]
    ELSE LET e == store[IndexOf(store, key)] IN
         IF Expired(e, t) THEN [value |-> None, store |-> Without(store, key)]
         ELSE [value |-> Some(e.value), store |-> Append(Without(store, key), e)]

\* the while loop of set: drop the oldest entries as long as the store is over
\* maxsize and its oldest entry has expired
RECURSIVE Evict(_, _, _)
Evict(store, maxsize, t) ==
    IF Len(store) > maxsize /\ Expired(Head(store), t)
    THEN Evict(Tail(store), maxsize, t)
    ELSE store

\* mutant: the expiry is stored as given, not added to the present time
CacheSetAbsoluteExpiry(store, maxsize, key, value, expire, t) ==
    Evict(Append(Without(store, key),
                 Entry(key, value,
                       IF ~IsNone(expire) /\ Val(expire) # 0 THEN expire ELSE None)),
          maxsize, t)

\* InMemoryCacheBackend.set; expire is optional, in seconds
CacheSet(store, maxsize, key, value, expire, t) ==
    Evict(Append(Without(store, key),
                 Entry(key, value,
                       IF ~IsNone(expire) /\ Val(expire) # 0
                       THEN Some(t + Val(expire)) ELSE None)),
          maxsize, t)

\* ------------------------------------------------------------ CacheClientMixin
\* a subclass that overrides the class attribute `method`
WithMethod(c, method) == [c EXCEPT !.class_default_method = method]

\* CacheClientMixin.__init__ on top of a BaseClient; default_cache_expire is
\* the class attribute (optional), cache_expireArg the constructor argument
NewCachingClient(base, default_cache_expire, cache_expireArg, user_identifier, cache_enabled, maxsize) ==
    [base |-> base,
     cache_enabled |-> cache_enabled,
     cache_expire |-> IF ~IsNone(cache_expireArg) /\ Val(cache_expireArg) # 0
                      THEN cache_expireArg ELSE default_cache_expire,
     user_identifier |-> user_identifier,
     maxsize |-> maxsize]

\* ---------------------------------------------------------- _generate_cache_key
\* A JSON value is a string (its characters or tokens) or a dict: the sequence
\* of its items in insertion order, keys distinct.
Atom(tokens) == [dict |-> FALSE, atom |-> tokens, items |-> <<>>]
Dict(items) == [dict |-> TRUE, atom |-> <<>>, items |-> items]
Item(k, v) == [k |-> k, v |-> v]

\* bool(value) of an optional value: None, "" and {} are falsy
Truthy(o) ==
    /\ ~IsNone(o)
    /\ IF Val(o).dict THEN Val(o).items # <<>> ELSE Val(o).atom # <<>>

\* the order of the keys that occur, as strings
KeyRank(k) ==
    CASE k = "a" -> 1 [] k = "b" -> 2 [] k = "data" -> 3 [] k = "json" -> 4
      [] k = "method" -> 5 [] k = "params" -> 6 [] k = "url" -> 7 [] k = "user" -> 8

\* mutant: the items are serialised in insertion order
InsertionOrderItems(items) == items

\* sort_keys=True: the items of a dict sorted by key
RECURSIVE SortedItems(_)
SortedItems(items) ==
    IF items = <<>> THEN <<>>
    ELSE LET i == CHOOSE i \in 1..Len(items) :
                     \A j \in 1..Len(items) : KeyRank(items[i].k) <= KeyRank(items[j].k)
         IN <<items[i]>> \o
            SortedItems(SubSeq(items, 1, i - 1) \o SubSeq(items, i + 1, Len(items)))

\* json.dumps(value, sort_keys=True, separators=(",", ":")) as a token sequence
RECURSIVE JsonDumps(_)
RECURSIVE JsonMembers(_)
JsonMembers(items) ==
    IF items = <<>> THEN <<>>
    ELSE <<Head(items).k, ":">> \o JsonDumps(Head(items).v)
         \o (IF Len(items) > 1 THEN <<",">> ELSE <<>>)
         \o JsonMembers(Tail(items))

JsonDumps(v) ==
    IF ~v.dict THEN <<"'">> \o v.atom \o <<"'">>
    ELSE <<"{">> \o JsonMembers(SortedItems(v.items)) \o <<"}">>

\* str.upper() on the method names that occur
Upper(m) ==
    CASE m = "get" -> "GET" [] m = "head" -> "HEAD" [] m = "post" -> "POST" [] OTHER -> m

\* hashlib.blake2b(...).hexdigest(): a function of the serialised text
Blake2b(key_str) == <<"blake2b:">> \o key_str

\* _generate_cache_key; request_kwargs holds the optional params, data, json
GenerateCacheKey(base_url, endpoint, method, request_kwargs, user_identifier) ==
    LET optional(k, o) == IF Truthy(o) THEN <<Item(k, Val(o))>> ELSE <<>>
        key_data ==
            <<Item("url", Atom(RStrip(base_url \o <<"/">> \o endpoint))),
              Item("method", Atom(<<Upper(method)>>))>>
            \o optional("params", request_kwargs.params)
            \o optional("data", request_kwargs.data)
            \o optional("json", request_kwargs.json)
            \o (IF ~IsNone(user_identifier) /\ Val(user_identifier) # ""
                THEN <<Item("user", Atom(user_identifier))>> ELSE <<>>)
    IN Blake2b(JsonDumps(Dict(key_data)))

\* the request_kwargs _get_cache_key takes from the spec
KeyKwargs(spec) == [params |-> spec.params, data |-> None, json |-> None]

\* _get_cache_key: optional
GetCacheKey(c, spec) ==
    LET method == Upper(Get(spec.method, "GET")) IN
    IF method \notin CACHEABLE_METHODS THEN None
    ELSE Some(GenerateCacheKey(c.base.base_url, Get(spec.endpoint, <<>>), method,
                               KeyKwargs(spec), c.user_identifier))

\* the expiry a call stores with: the spec's cache_expire, else the client's
ExpireFor(c, spec) ==
    IF IsNone(spec.cache_expire) THEN c.cache_expire ELSE spec.cache_expire

\* ------------------------------------------------------- the caching client
CacheSpecs ==
    { s \in { RequestSpec(m, Some(e), None, None, cf, ce) :
                m \in {None, Some("POST")},
                e \in {<<"a">>, <<"b">>},
                cf \in {None, Some(FALSE)},
                ce \in {None, Some(1)} } :
        \/ s.endpoint = Some(<<"b">>) /\ SpecKeys(s) = {"endpoint"}
        \/ s.endpoint = Some(<<"a">>) /\ Cardinality(SpecKeys(s)) <= 2 }

CachingClients ==
    { NewCachingClient(NewClient(Some(0), NoRetryConfigArg, "json", "default", 1),
                       Some(DEFAULT_CACHE_EXPIRE), ce, None, enabled, maxsize) :
        ce \in {None, Some(1)},
        enabled \in BOOLEAN,
        maxsize \in {1, MaxSize} }
    \cup
    \* a client whose formatter raises, a subclass whose class attribute
    \* default_cache_expire is 0, and a subclass whose class attribute method
    \* is POST
    { NewCachingClient(NewClient(Some(0), NoRetryConfigArg, "json", "raising", 1),
                       Some(DEFAULT_CACHE_EXPIRE), None, None, TRUE, 1),
      NewCachingClient(NewClient(Some(0), NoRetryConfigArg, "json", "default", 1),
                       Some(0), None, None, TRUE, 1),
      NewCachingClient(WithMethod(NewClient(Some(0), NoRetryConfigArg, "json",
                                            "default", 1), "POST"),
                       Some(DEFAULT_CACHE_EXPIRE), None, None, TRUE, 1) }

\* what the stub transport of the caching client answers
CacheAttemptOutcomes == {Resp(200), Resp(503)}

\* self._original_request(spec): the outcomes of BaseClient.request for a dict
OriginalRequest(c, spec) ==
    { o \in Outcomes(c.base, spec) :
        \A i \in 1..Len(o.made.attempts) : o.made.attempts[i] \in CacheAttemptOutcomes }

\* the record of the last operation on the caching client
Called(op, spec, raised, envelope, transport_calls, parser_calls, formatter_calls) ==
    [n |-> last.n + 1, op |-> op, spec |-> spec, at |-> now, raised |-> raised,
     envelope |-> envelope, transport_calls |-> transport_calls,
     parser_calls |-> parser_calls, formatter_calls |-> formatter_calls]

CalledOut(op, spec, o) ==
    Called(op, spec, o.raised, o.envelope, o.transport_calls, o.parser_calls,
           o.formatter_calls)

InitCache ==
    /\ client \in CachingClients
    /\ last = [n |-> 0, op |-> "none",
               spec |-> RequestSpec(None, None, None, None, None, None), at |-> 0,
               raised |-> "none", envelope |-> NoEnvelope, transport_calls |-> 0,
               parser_calls |-> 0, formatter_calls |-> 0]
    /\ cache = <<>>
    /\ now = 0
    /\ threads = <<>>
    /\ lock = None
    /\ request_list = <<>>
    /\ futures = <<>>
    /\ results = <<>>
    /\ pc = "idle"

\* _process_single_request for a dict, is_async = False
ProcessSingleRequest(spec) ==
    LET key == GetCacheKey(client, spec) IN
    IF spec.cache = Some(FALSE) \/ IsNone(key)
    THEN \E o \in OriginalRequest(client, spec) :
            /\ last' = CalledOut("request", spec, o)
            /\ cache' = cache
    ELSE LET got == CacheGet(cache, Val(key), now) IN
         IF ~IsNone(got.value)
         THEN /\ last' = Called("request", spec, "none", Val(got.value), 0, 0, 0)
              /\ cache' = got.store
         ELSE \E o \in OriginalRequest(client, spec) :
                 /\ last' = CalledOut("request", spec, o)
                 /\ cache' = IF o.raised = "none" /\ o.envelope.result
                             THEN CacheSet(got.store, client.maxsize, Val(key),
                                           o.envelope, ExpireFor(client, spec), now)
                             ELSE got.store

\* client.request(spec): _cached_request when the cache was enabled at
\* construction, else BaseClient.request
Request ==
    /\ last.n < MaxCalls
    /\ \E spec \in CacheSpecs :
          IF client.cache_enabled
          THEN ProcessSingleRequest(spec)
          ELSE \E o \in OriginalRequest(client, spec) :
                  /\ last' = CalledOut("request", spec, o)
                  /\ cache' = cache
    /\ UNCHANGED <<client, now, request_list, futures, results, pc, threads, lock>>

\* client.cacheless(spec): _uncached_request(mode="cacheless")
Cacheless ==
    /\ last.n < MaxCalls
    /\ client.cache_enabled
    /\ \E spec \in CacheSpecs :
          \E o \in OriginalRequest(client, spec) :
             last' = CalledOut("cacheless", spec, o)
    /\ UNCHANGED <<client, cache, now, request_list, futures, results, pc, threads, lock>>

\* mutant: refresh stores successful envelopes only
RefreshStoringSuccessOnly ==
    /\ last.n < MaxCalls
    /\ client.cache_enabled
    /\ \E spec \in CacheSpecs :
          \E o \in OriginalRequest(client, spec) :
             LET key == GetCacheKey(client, spec) IN
             /\ last' = CalledOut("refresh", spec, o)
             /\ cache' = IF o.raised = "none" /\ o.envelope.result /\ ~IsNone(key)
                         THEN CacheSet(cache, client.maxsize, Val(key), o.envelope,
                                       ExpireFor(client, spec), now)
                         ELSE cache
    /\ UNCHANGED <<client, now, request_list, futures, results, pc, threads, lock>>

\* client.refresh(spec): _uncached_request(mode="refresh")
Refresh ==
    /\ last.n < MaxCalls
    /\ client.cache_enabled
    /\ \E spec \in CacheSpecs :
          \E o \in OriginalRequest(client, spec) :
             LET key == GetCacheKey(client, spec) IN
             /\ last' = CalledOut("refresh", spec, o)
             /\ cache' = IF o.raised = "none" /\ ~IsNone(key)
                         THEN CacheSet(cache, client.maxsize, Val(key), o.envelope,
                                       ExpireFor(client, spec), now)
                         ELSE cache
    /\ UNCHANGED <<client, now, request_list, futures, results, pc, threads, lock>>

\* client.clear_cache()
ClearCache ==
    /\ last.n < MaxCalls
    /\ last' = Called("clear", RequestSpec(None, None, None, None, None, None),
                      "none", NoEnvelope, 0, 0, 0)
    /\ cache' = <<>>
    /\ UNCHANGED <<client, now, request_list, futures, results, pc, threads, lock>>

\* a second passes
Tick ==
    /\ now < MaxTime
    /\ now' = now + 1
    /\ UNCHANGED <<client, last, cache, request_list, futures, results, pc, threads, lock>>

NextCache == Request \/ Cacheless \/ Refresh \/ ClearCache \/ Tick

SpecCache == InitCache /\ [][NextCache]_vars

\* ---------------------------------------------- properties of the cache
\* the spec is cacheable: sent with a cacheable method and not opted out
CacheableSpec(spec) ==
    /\ Method(client.base, spec) \in CACHEABLE_METHODS
    /\ spec.cache # Some(FALSE)

\* the entry a call stored at `at` with the expiry in effect has not expired
NotExpiredSince(spec, at) ==
    LET e == ExpireFor(client, spec) IN
    IsNone(e) \/ Val(e) = 0 \/ now' < at + Val(e)

C5_OnlySuccessCached ==
    \A i \in 1..Len(cache) : cache[i].value.result

\* a step that is the next call on the caching client
NextCall(op) == client.cache_enabled /\ last'.n = last.n + 1 /\ last'.op = op

\* the record of a call that was answered from the cache / that was executed
\* by BaseClient.request and returned an envelope
ServedFromCache(l) == l.op = "request" /\ l.raised = "none" /\ l.transport_calls = 0
Executed(l) == l.raised = "none" /\ l.transport_calls > 0

\* the entry of the store under an optional key, optional itself
EntryOf(store, key) ==
    IF IsNone(key) \/ Val(key) \notin Keys(store) THEN None
    ELSE Some(store[IndexOf(store, Val(key))])

\* C14: a successful cacheable request that was executed stores its entry
\* with the expiry e >= 0 in effect for the call (the entry expires e seconds
\* after the store), and the next request for the same key, made e or more
\* seconds after the store, is not served from the cache.
C14_ExpiryInEffect ==
    [][ /\ (/\ NextCall("request") /\ Executed(last') /\ last'.envelope.result
            /\ CacheableSpec(last'.spec)
            /\ ~IsNone(ExpireFor(client, last'.spec)))
           => LET e == EntryOf(cache', GetCacheKey(client, last'.spec)) IN
              /\ ~IsNone(e)
              /\ Val(e).expire_at = Some(now + Val(ExpireFor(client, last'.spec)))
        /\ (/\ last.op = "request" /\ Executed(last) /\ last.envelope.result
            /\ CacheableSpec(last.spec)
            /\ ~IsNone(ExpireFor(client, last.spec))
            /\ NextCall("request")
            /\ GetCacheKey(client, last'.spec) = GetCacheKey(client, last.spec)
            /\ now >= last.at + Val(ExpireFor(client, last.spec)))
           => ~ServedFromCache(last') ]_vars

\* C15: a call whose request is sent with a method outside the cacheable set
\* (the spec's method, or the client's default method when the spec names
\* none) is never answered from the cache and leaves the cache as it was.
C15_OnlyCacheableMethods ==
    [][ (/\ client.cache_enabled /\ last'.n = last.n + 1
         /\ last'.op \in {"request", "refresh", "cacheless"}
         /\ Method(client.base, last'.spec) \notin CACHEABLE_METHODS)
        => /\ ~ServedFromCache(last')
           /\ cache' = cache ]_vars

\* the spec without its `cache` field
WithoutCacheField(spec) == [spec EXCEPT !.cache = None]

\* C16: a request whose spec carries cache: false has an outcome (transport
\* calls, envelope) that the spec without that field has on the client
\* without caching, and it leaves the cache as it was.
C16_OptOutOnlySteersCache ==
    [][ (NextCall("request") /\ last'.spec.cache = Some(FALSE))
        => /\ \E o \in OriginalRequest(client, WithoutCacheField(last'.spec)) :
                 /\ o.raised = last'.raised
                 /\ o.envelope = last'.envelope
                 /\ o.transport_calls = last'.transport_calls
           /\ cache' = cache ]_vars

\* the key _generate_cache_key gives the spec, whatever its method
KeyOfSpec(c, spec) ==
    Some(GenerateCacheKey(c.base.base_url, Get(spec.endpoint, <<>>),
                          Get(spec.method, "GET"), KeyKwargs(spec), c.user_identifier))

\* a refresh call executes the request and does not answer from the cache
RefreshExecutes ==
    NextCall("refresh") => (last'.raised # "none" \/ last'.transport_calls > 0)

\* after a refresh call that returned a result and stored it, the next call,
\* if it is a normal request for the same spec before the expiry, is answered
\* from the cache with that result
RefreshThenHit ==
    (/\ last.op = "refresh" /\ last.raised = "none"
     /\ ~IsNone(GetCacheKey(client, last.spec))
     /\ NextCall("request") /\ last'.spec = last.spec
     /\ NotExpiredSince(last.spec, last.at))
    => /\ ServedFromCache(last')
       /\ last'.envelope = last.envelope

\* a cacheless call executes the request and leaves the cache as it was
CachelessBypasses ==
    NextCall("cacheless") =>
        /\ last'.raised # "none" \/ last'.transport_calls > 0
        /\ cache' = cache

PoolSpecs ==
    { RequestSpec(None, Some(<<"a">>), None, None, None, None),
      RequestSpec(None, Some(<<"b">>), None, None, None, None),
      RequestSpec(None, Some(<<"a">>), None, Some(<<"f">>), None, None) }

PoolClients ==
    { NewClient(Some(0), NoRetryConfigArg, "json", "default", w) : w \in 1..MaxWorkers }

RECURSIVE Lists(_, _)
Lists(S, n) ==
    IF n = 0 THEN {<<>>}
    ELSE LET shorter == Lists(S, n - 1) IN
         shorter \cup {Append(l, x) : l \in {s \in shorter : Len(s) = n - 1}, x \in S}

\* what the stub transport of the batch answers
PoolAttemptOutcomes == {Resp(200), Resp(503)}

\* the outcomes of the task submitted for a spec:
\* client_instance._make_request_and_format(request_id, config)
TaskOutcomes(c, spec) ==
    { o \in Outcomes(c, spec) :
        \A i \in 1..Len(o.made.attempts) : o.made.attempts[i] \in PoolAttemptOutcomes }

\* a Future: the index it was submitted for, its state, and once done what
\* the task returned or raised
Future(index, state, out) == [index |-> index, state |-> state, out |-> out]

\* the value the collecting loop stores for a finished future: its result,
\* an APIClientError it raised, or an APIClientError made of any other
\* exception
SlotError(type, message) == [is_error |-> TRUE, envelope |-> NoEnvelope,
                             type |-> type, message |-> message]
SlotEnvelope(envelope) == [is_error |-> FALSE, envelope |-> envelope,
                           type |-> "none", message |-> <<>>]

\* mutant: an exception that is no APIClientError is stored as it is
SlotForUnconverted(out) ==
    IF out.raised = "none" THEN SlotEnvelope(out.envelope)
    ELSE SlotError(out.raised, <<out.raised>>)

SlotFor(out) ==
    IF out.raised = "none" THEN SlotEnvelope(out.envelope)
    ELSE IF out.raised \in {"APIClientError", "APIClientTimeoutError",
                            "APIClientHTTPError", "APIClientNetworkError"}
    THEN SlotError(out.raised, <<out.raised>>)
    ELSE SlotError("APIClientError", <<"Unexpected error: ", out.raised>>)

\* mutant: a result is stored in the first free slot, in completion order
CollectedInCompletionOrder(res, fut) ==
    LET free == CHOOSE i \in 1..Len(res) :
                    IsNone(res[i]) /\ \A j \in 1..(i - 1) : ~IsNone(res[j]) IN
    [res EXCEPT ![free] = Some(SlotFor(fut.out))]

\* results[index] = ... in the as_completed loop
Collected(res, fut) == [res EXCEPT ![fut.index] = Some(SlotFor(fut.out))]

InitPool ==
    /\ client \in PoolClients
    /\ request_list \in {l \in Lists(PoolSpecs, MaxBatch) : Len(l) >= 1}
    /\ results = [i \in 1..Len(request_list) |-> None]
    /\ futures = <<>>
    /\ pc = "submit"
    /\ last = NoCall
    /\ cache = <<>>
    /\ now = 0
    /\ threads = <<>>
    /\ lock = None

\* executor.submit(...) for the next spec of the list; futures[future] = i
Submit ==
    /\ pc = "submit"
    /\ futures' = Append(futures, Future(Len(futures) + 1, "queued", NoCall.out))
    /\ pc' = IF Len(futures) + 1 = Len(request_list) THEN "collect" ELSE "submit"
    /\ UNCHANGED <<client, last, cache, now, request_list, results, threads, lock>>

Running == {i \in 1..Len(futures) : futures[i].state = "running"}

\* mutant: a worker thread runs one task and is not used again
StartOnFreshThread ==
    /\ \E i \in 1..Len(futures) :
          /\ futures[i].state = "queued"
          /\ \A j \in 1..(i - 1) : futures[j].state # "queued"
          /\ i <= client.max_workers
          /\ futures' = [futures EXCEPT ![i].state = "running"]
    /\ UNCHANGED <<client, last, cache, now, request_list, results, pc, threads, lock>>

\* a free worker thread takes the oldest queued task
Start ==
    /\ \E i \in 1..Len(futures) :
          /\ futures[i].state = "queued"
          /\ \A j \in 1..(i - 1) : futures[j].state # "queued"
          /\ Cardinality(Running) < client.max_workers
          /\ futures' = [futures EXCEPT ![i].state = "running"]
    /\ UNCHANGED <<client, last, cache, now, request_list, results, pc, threads, lock>>

\* a worker thread finishes its task: the future holds what the call of
\* _make_request_and_format returned or raised
Finish ==
    /\ \E i \in Running :
          \E o \in TaskOutcomes(client, request_list[i]) :
             futures' = [futures EXCEPT ![i] = Future(i, "done", o)]
    /\ UNCHANGED <<client, last, cache, now, request_list, results, pc, threads, lock>>

\* one round of `for future in as_completed(futures)`: a finished future not
\* yet seen is handed out and its result stored
Collect ==
    /\ pc = "collect"
    /\ \E i \in 1..Len(futures) :
          /\ futures[i].state = "done"
          /\ results' = Collected(results, futures[i])
          /\ futures' = [futures EXCEPT ![i].state = "collected"]
    /\ UNCHANGED <<client, last, cache, now, request_list, pc, threads, lock>>

\* as_completed is exhausted, the pool is shut down, execute returns results
Return ==
    /\ pc = "collect"
    /\ \A i \in 1..Len(futures) : futures[i].state = "collected"
    /\ pc' = "returned"
    /\ UNCHANGED <<client, last, cache, now, request_list, futures, results, threads, lock>>

NextPool == Submit \/ Start \/ Finish \/ Collect \/ Return

SpecPool == InitPool /\ [][NextPool]_vars

\* -------------------------------------------------- properties of a batch
\* C2: execute returns a list of exactly N entries and entry i is the outcome
\* of input spec i, whatever the order in which the tasks complete.
C2_ResultsByIndex ==
    pc = "returned" =>
        /\ Len(results) = Len(request_list)
        /\ \A i \in 1..Len(request_list) :
              /\ ~IsNone(results[i])
              /\ futures[i].index = i
              /\ Val(results[i]) \in {SlotFor(o) : o \in TaskOutcomes(client, request_list[i])}
              /\ ~futures[i].out.made.k = "none"
              /\ futures[i].out.made.url = Url(client, request_list[i])
              /\ (futures[i].out.raised = "none" =>
                     Val(results[i]) = SlotEnvelope(futures[i].out.envelope))

\* a batch whose tasks completed in another order than they were submitted
\* is told by its results: two specs with different outcomes
C2_Witness ==
    /\ pc = "returned"
    /\ Len(request_list) >= 2
    /\ client.max_workers >= 2
    /\ request_list[1] # request_list[2]
    /\ ~Val(results[1]).is_error /\ Val(results[1]).envelope.result
    /\ ~Val(results[2]).is_error /\ Val(results[2]).envelope.result
    /\ Val(results[1]) # Val(results[2])

\* C3: an exception escaping a task is stored as an APIClientError at that
\* task's slot; every other spec is still executed and its outcome is in its
\* slot.
C3_FailureIsolated ==
    pc = "returned" =>
        \A i \in 1..Len(request_list) :
            /\ futures[i].state = "collected"
            /\ futures[i].out.made.k # "none"
            /\ IF futures[i].out.raised # "none"
               THEN /\ ~IsNone(results[i])
                    /\ Val(results[i]).is_error
                    /\ Val(results[i]).type = "APIClientError"
               ELSE results[i] = Some(SlotEnvelope(futures[i].out.envelope))

C3_Witness ==
    /\ pc = "returned"
    /\ \E i, j \in 1..Len(request_list) :
          /\ futures[i].out.raised = "TypeError"
          /\ Val(results[i]).is_error
          /\ futures[j].out.raised = "none"
          /\ Val(results[j]) = SlotEnvelope(futures[j].out.envelope)
          /\ Val(results[j]).envelope.result

\* ------------------------------------------- cache keys of reordered params
\* the dicts given as params, data or json: keys a, b; values strings or,
\* one level down, dicts again
DictKeys == {"a", "b"}
AtomValues == {Atom(<<"1">>), Atom(<<"2">>)}

\* the insertion-ordered dicts with one or two of the keys and values from V
DictsOver(V) ==
    {Dict(<<Item(k, v)>>) : k \in DictKeys, v \in V}
    \cup {d \in {Dict(<<Item(k1, v1), Item(k2, v2)>>) :
                    k1 \in DictKeys, k2 \in DictKeys, v1 \in V, v2 \in V} :
            d.items[1].k # d.items[2].k}

FlatDicts == DictsOver(AtomValues)
NestedDicts == DictsOver(AtomValues \cup FlatDicts)

\* the value a dict holds under a key it has
ValueAt(d, k) == d.items[CHOOSE i \in 1..Len(d.items) : d.items[i].k = k].v
KeysOf(d) == {d.items[i].k : i \in 1..Len(d.items)}

\* dict equality in Python: the same keys with equal values, whatever the
\* insertion order
RECURSIVE SameMap(_, _)
SameMap(v, w) ==
    IF ~v.dict \/ ~w.dict THEN v = w
    ELSE /\ KeysOf(v) = KeysOf(w)
         /\ \A k \in KeysOf(v) : SameMap(ValueAt(v, k), ValueAt(w, k))

\* the request_kwargs of the two specs compared: one of params, data, json
KwargsWith(k, d) ==
    [params |-> IF k = "params" THEN Some(d) ELSE None,
     data |-> IF k = "data" THEN Some(d) ELSE None,
     json |-> IF k = "json" THEN Some(d) ELSE None]

KeyOf(request_kwargs) ==
    GenerateCacheKey(client.base.base_url, <<"a">>, "GET", request_kwargs,
                     client.user_identifier)

\* two specs with maps that are equal as maps
InitKey ==
    /\ client = NewCachingClient(NewClient(Some(0), NoRetryConfigArg, "json",
                                           "default", 1),
                                 Some(DEFAULT_CACHE_EXPIRE), None, None, TRUE, 1)
    /\ \E k \in {"params", "data", "json"} :
          \E d1 \in NestedDicts :
             \E d2 \in {d \in NestedDicts : SameMap(d1, d)} :
                request_list = <<KwargsWith(k, d1), KwargsWith(k, d2)>>
    /\ results = <<>>
    /\ last = NoCall
    /\ cache = <<>>
    /\ now = 0
    /\ threads = <<>>
    /\ lock = None
    /\ futures = <<>>
    /\ pc = "idle"

\* _generate_cache_key for both specs
GenerateKeys ==
    /\ pc = "idle"
    /\ results' = <<KeyOf(request_list[1]), KeyOf(request_list[2])>>
    /\ pc' = "done"
    /\ UNCHANGED <<client, last, cache, now, request_list, futures, threads, lock>>

NextKey == GenerateKeys

SpecKey == InitKey /\ [][NextKey]_vars

\* C18: two specs whose params, data or json maps (nested maps included) are
\* equal as maps but were built in different key orders get the same cache
\* key.
C18_KeyIgnoresInsertionOrder ==
    pc = "done" => results[1] = results[2]

C18_Witness ==
    /\ pc = "done"
    /\ request_list[1] # request_list[2]
    /\ ~IsNone(request_list[1].json)
    /\ \E k \in DictKeys :
          /\ k \in KeysOf(Val(request_list[1].json))
          /\ ValueAt(Val(request_list[1].json), k).dict
          /\ ValueAt(Val(request_list[1].json), k) # ValueAt(Val(request_list[2].json), k)
    /\ results[1] = results[2]

\* ------------------------------- InMemoryCacheBackend under several threads
\* Each call takes self.lock, runs its statements one at a time and gives the
\* lock back.  A thread remembers the store it found when it got the lock and
\* the instants it read from the clock.
Threads == {"t1", "t2"}
BackendKeys == {"k1", "k2"}
BackendOps ==
    {[op |-> "get", key |-> k, value |-> "", expire |-> None] : k \in BackendKeys}
    \cup {[op |-> "set", key |-> k, value |-> "v", expire |-> e] :
            k \in BackendKeys, e \in {None, Some(0), Some(1)}}
    \cup {[op |-> "delete", key |-> k, value |-> "", expire |-> None] : k \in BackendKeys}
    \cup {[op |-> "clear", key |-> "k1", value |-> "", expire |-> None]}

IdleThread ==
    [pc |-> "idle", call |-> [op |-> "none", key |-> "k1", value |-> "", expire |-> None],
     ret |-> None, store0 |-> <<>>, t1 |-> 0, t2 |-> 0]

\* self.cache[key] = entry: in place when the key is there, else at the end
Assign(store, key, e) ==
    IF key \in Keys(store) THEN [store EXCEPT ![IndexOf(store, key)] = e]
    ELSE Append(store, e)

\* self.cache.move_to_end(key)
MoveToEnd(store, key) == Append(Without(store, key), store[IndexOf(store, key)])

\* InMemoryCacheBackend.delete and clear
CacheDelete(store, key) == Without(store, key)
CacheClear(store) == <<>>

InitBackend ==
    /\ client \in {[maxsize |-> m] : m \in 1..MaxSize}
    /\ last = [n |-> 0]
    /\ cache = <<>>
    /\ now = 0
    /\ request_list = <<>>
    /\ futures = <<>>
    /\ results = <<>>
    /\ pc = "idle"
    /\ threads = [t \in Threads |-> IdleThread]
    /\ lock = None

At(t, label) == threads[t].pc = label
Goto(t, label) == [threads EXCEPT ![t].pc = label]
BackendRest == <<client, now, request_list, futures, results, pc>>

\* a thread calls get, set, delete or clear
Call ==
    /\ last.n < MaxBackendCalls
    /\ \E t \in Threads : \E c \in BackendOps :
          /\ At(t, "idle")
          /\ threads' = [threads EXCEPT ![t] = [IdleThread EXCEPT !.pc = "acquire",
                                                                  !.call = c]]
    /\ last' = [n |-> last.n + 1]
    /\ UNCHANGED <<cache, lock>>
    /\ UNCHANGED BackendRest

\* mutant: the lock is taken although another thread holds it
AcquireUnlocked ==
    /\ \E t \in Threads :
          /\ At(t, "acquire")
          /\ lock' = Some(t)
          /\ threads' = [threads EXCEPT ![t].pc = threads[t].call.op,
                                        ![t].store0 = cache]
    /\ UNCHANGED <<last, cache>>
    /\ UNCHANGED BackendRest

\* with self.lock: the thread waits until no other thread holds the lock
Acquire ==
    /\ lock = None
    /\ \E t \in Threads :
          /\ At(t, "acquire")
          /\ lock' = Some(t)
          /\ threads' = [threads EXCEPT ![t].pc = threads[t].call.op,
                                        ![t].store0 = cache]
    /\ UNCHANGED <<last, cache>>
    /\ UNCHANGED BackendRest

\* get: if key not in self.cache: return None
GetContains ==
    /\ \E t \in Threads :
          /\ At(t, "get")
          /\ threads' = Goto(t, IF threads[t].call.key \in Keys(cache)
                                THEN "get_expiry" ELSE "release")
    /\ UNCHANGED <<last, cache, lock>>
    /\ UNCHANGED BackendRest

\* the thread's statement raises KeyError: the call ends with the exception
KeyError(t) == [threads EXCEPT ![t].pc = "release", ![t].ret = Some("KeyError")]

\* get: value, expire_at = self.cache[key]; the expiry check against the clock
GetExpiry ==
    /\ \E t \in Threads :
          /\ At(t, "get_expiry")
          /\ IF threads[t].call.key \notin Keys(cache) THEN threads' = KeyError(t)
             ELSE LET e == cache[IndexOf(cache, threads[t].call.key)] IN
                  threads' = [threads EXCEPT
                      ![t].pc = IF Expired(e, now) THEN "get_delete" ELSE "get_move",
                      ![t].ret = IF Expired(e, now) THEN None ELSE Some(e.value),
                      ![t].t1 = now]
    /\ UNCHANGED <<last, cache, lock>>
    /\ UNCHANGED BackendRest

\* get: del self.cache[key]; return None
GetDelete ==
    /\ \E t \in Threads :
          /\ At(t, "get_delete")
          /\ IF threads[t].call.key \notin Keys(cache)
             THEN threads' = KeyError(t) /\ cache' = cache
             ELSE /\ cache' = Without(cache, threads[t].call.key)
                  /\ threads' = Goto(t, "release")
    /\ UNCHANGED <<last, lock>>
    /\ UNCHANGED BackendRest

\* get: self.cache.move_to_end(key); return value
GetMove ==
    /\ \E t \in Threads :
          /\ At(t, "get_move")
          /\ IF threads[t].call.key \notin Keys(cache)
             THEN threads' = KeyError(t) /\ cache' = cache
             ELSE /\ cache' = MoveToEnd(cache, threads[t].call.key)
                  /\ threads' = Goto(t, "release")
    /\ UNCHANGED <<last, lock>>
    /\ UNCHANGED BackendRest

\* set: expire_at = time.time() + expire if expire else None;
\*      self.cache[key] = (value, expire_at)
SetStore ==
    /\ \E t \in Threads :
          /\ At(t, "set")
          /\ LET c == threads[t].call
                 expire_at == IF ~IsNone(c.expire) /\ Val(c.expire) # 0
                              THEN Some(now + Val(c.expire)) ELSE None
             IN /\ cache' = Assign(cache, c.key, Entry(c.key, c.value, expire_at))
                /\ threads' = [threads EXCEPT ![t].pc = "set_move", ![t].t1 = now,
                                              ![t].t2 = now]
    /\ UNCHANGED <<last, lock>>
    /\ UNCHANGED BackendRest

\* set: self.cache.move_to_end(key)
SetMove ==
    /\ \E t \in Threads :
          /\ At(t, "set_move")
          /\ IF threads[t].call.key \notin Keys(cache)
             THEN threads' = KeyError(t) /\ cache' = cache
             ELSE /\ cache' = MoveToEnd(cache, threads[t].call.key)
                  /\ threads' = Goto(t, "set_evict")
    /\ UNCHANGED <<last, lock>>
    /\ UNCHANGED BackendRest

\* set: one turn of `while len(self.cache) > self.maxsize`: the oldest entry
\* is deleted if it has expired, else the loop is left
SetEvict ==
    /\ \E t \in Threads :
          /\ At(t, "set_evict")
          /\ IF Len(cache) > client.maxsize
             THEN IF Expired(Head(cache), now)
                  THEN /\ cache' = Tail(cache)
                       /\ threads' = [threads EXCEPT ![t].t2 = now]
                  ELSE /\ cache' = cache
                       /\ threads' = [threads EXCEPT ![t].pc = "release", ![t].t2 = now]
             ELSE /\ cache' = cache
                  /\ threads' = Goto(t, "release")
    /\ UNCHANGED <<last, lock>>
    /\ UNCHANGED BackendRest

\* delete: if key in self.cache
DeleteContains ==
    /\ \E t \in Threads :
          /\ At(t, "delete")
          /\ threads' = Goto(t, IF threads[t].call.key \in Keys(cache)
                                THEN "delete_del" ELSE "release")
    /\ UNCHANGED <<last, cache, lock>>
    /\ UNCHANGED BackendRest

\* delete: del self.cache[key]
DeleteDelete ==
    /\ \E t \in Threads :
          /\ At(t, "delete_del")
          /\ IF threads[t].call.key \notin Keys(cache)
             THEN threads' = KeyError(t) /\ cache' = cache
             ELSE /\ cache' = Without(cache, threads[t].call.key)
                  /\ threads' = Goto(t, "release")
    /\ UNCHANGED <<last, lock>>
    /\ UNCHANGED BackendRest

\* clear: self.cache.clear()
Clear ==
    /\ \E t \in Threads :
          /\ At(t, "clear")
          /\ cache' = <<>>
          /\ threads' = Goto(t, "release")
    /\ UNCHANGED <<last, lock>>
    /\ UNCHANGED BackendRest

\* the end of the with block: the lock is given back and the call returns
Release ==
    /\ \E t \in Threads :
          /\ At(t, "release")
          /\ threads' = [threads EXCEPT ![t] = IdleThread]
    /\ lock' = None
    /\ UNCHANGED <<last, cache>>
    /\ UNCHANGED BackendRest

\* a second passes
BackendTick ==
    /\ now < MaxTime
    /\ now' = now + 1
    /\ UNCHANGED <<client, last, cache, request_list, futures, results, pc, threads, lock>>

NextBackend ==
    \/ Call \/ Acquire
    \/ GetContains \/ GetExpiry \/ GetDelete \/ GetMove
    \/ SetStore \/ SetMove \/ SetEvict
    \/ DeleteContains \/ DeleteDelete \/ Clear
    \/ Release \/ BackendTick

SpecBackend == InitBackend /\ [][NextBackend]_vars

\* ------------------------------------------ properties of the cache backend
\* no call is in progress
Quiescent == lock = None /\ \A t \in Threads : threads[t].pc \in {"idle", "acquire"}

\* C13: after any sequence of set, get, delete and clear calls on a backend
\* of capacity maxsize, the number of stored entries does not exceed maxsize.
C13_SizeBounded == Quiescent => Len(cache) <= client.maxsize

\* the threads that are inside a call's with block
Inside == {t \in Threads : threads[t].pc \notin {"idle", "acquire"}}

\* what the call of thread t, run alone on the store it found, returns and
\* leaves behind, given the instants it read from the clock
Sequential(t) ==
    LET th == threads[t]
        c == th.call
    IN CASE c.op = "get" -> CacheGet(th.store0, c.key, th.t1)
         [] c.op = "set" ->
              [value |-> None,
               store |-> Evict(Append(Without(th.store0, c.key),
                                      Entry(c.key, c.value,
                                            IF ~IsNone(c.expire) /\ Val(c.expire) # 0
                                            THEN Some(th.t1 + Val(c.expire)) ELSE None)),
                               client.maxsize, th.t2)]
         [] c.op = "delete" -> [value |-> None, store |-> CacheDelete(th.store0, c.key)]
         [] OTHER -> [value |-> None, store |-> CacheClear(th.store0)]

\* C19: under any interleaving of get, set, delete and clear calls of several
\* threads on one backend each call takes effect atomically: at most one
\* thread is inside a call, it holds the lock, and when it is about to return
\* the store and its result are those of the call run alone on the store it
\* found.
C19_CallsAtomic ==
    /\ Cardinality(Inside) <= 1
    /\ \A t \in Inside : lock = Some(t)
    /\ \A t \in Threads :
          At(t, "release") =>
              /\ cache = Sequential(t).store
              /\ threads[t].ret = Sequential(t).value

C19_Witness ==
    \E t \in Threads : \E u \in Threads \ {t} :
        /\ At(t, "release") /\ threads[t].call.op = "get"
        /\ threads[t].ret = Some("v")
        /\ lock = Some(t) /\ cache = Sequential(t).store
        /\ At(u, "acquire") /\ threads[u].call.op = "set"
        /\ threads[u].call.key = threads[t].call.key

\* ------------------------------------------------- request(list, is_async)
\* What a call of request with a list does: the lists it hands to
\* executor_instance.execute, the number of specs the calling thread runs
\* itself through _make_request_and_format, and what it returns or raises.
Dispatched(is_async, raised, res, executor_lists, caller_runs) ==
    [called |-> TRUE, is_async |-> is_async, raised |-> raised, results |-> res,
     executor_lists |-> executor_lists, caller_runs |-> caller_runs]

NoDispatch ==
    [called |-> FALSE, is_async |-> FALSE, raised |-> "none", results |-> <<>>,
     executor_lists |-> <<>>, caller_runs |-> 0]

\* executor_instance.execute(self, request_list): one slot per spec, a task
\* that raised is an APIClientError in its slot
RECURSIVE ExecuteResults(_, _)
ExecuteResults(c, list) ==
    IF list = <<>> THEN {<<>>}
    ELSE {<<SlotFor(o)>> \o rest :
            o \in TaskOutcomes(c, Head(list)), rest \in ExecuteResults(c, Tail(list))}

\* _execute_sync_requests: the specs one after another in the calling thread;
\* an exception of _make_request_and_format ends the loop
RECURSIVE ExecuteSyncRequests(_, _)
ExecuteSyncRequests(c, list) ==
    IF list = <<>> THEN {[raised |-> "none", results |-> <<>>, runs |-> 0]}
    ELSE UNION {
           IF o.raised # "none"
           THEN {[raised |-> o.raised, results |-> <<>>, runs |-> 1]}
           ELSE {[raised |-> r.raised,
                  results |-> IF r.raised = "none"
                              THEN <<SlotEnvelope(o.envelope)>> \o r.results ELSE <<>>,
                  runs |-> 1 + r.runs] : r \in ExecuteSyncRequests(c, Tail(list))}
           : o \in TaskOutcomes(c, Head(list)) }

\* BaseClient.request for a list
BaseRequestList(c, list, is_async) ==
    IF list = <<>> THEN {Dispatched(is_async, "none", <<>>, <<>>, 0)}
    ELSE IF is_async
    THEN {Dispatched(is_async, "none", res, <<list>>, 0) : res \in ExecuteResults(c, list)}
    ELSE {Dispatched(is_async, r.raised, r.results, <<>>, r.runs) :
            r \in ExecuteSyncRequests(c, list)}

\* _process_single_request(item, is_async) on a store: what it returns or
\* raises, the store it leaves and whether it ran the request
ProcessSingle(c, store, spec, is_async, t) ==
    LET key == GetCacheKey(c, spec)
        bypass == {[raised |-> o.raised, envelope |-> o.envelope, store |-> store,
                    runs |-> 1] : o \in TaskOutcomes(c.base, spec)}
    IN
    IF spec.cache = Some(FALSE) \/ IsNone(key) THEN bypass
    ELSE LET got == CacheGet(store, Val(key), t) IN
         IF ~IsNone(got.value)
         THEN {[raised |-> "none", envelope |-> Val(got.value), store |-> got.store,
                runs |-> 0]}
         ELSE {[raised |-> o.raised, envelope |-> o.envelope,
                store |-> IF ~is_async /\ o.raised = "none" /\ o.envelope.result
                          THEN CacheSet(got.store, c.maxsize, Val(key), o.envelope,
                                        ExpireFor(c, spec), t)
                          ELSE got.store,
                runs |-> 1] : o \in TaskOutcomes(c.base, spec)}

\* _cached_request for a list:
\* [self._process_single_request(item, is_async) for item in request_data]
RECURSIVE CachedRequestList(_, _, _, _, _)
CachedRequestList(c, store, list, is_async, t) ==
    IF list = <<>>
    THEN {[raised |-> "none", results |-> <<>>, store |-> store, runs |-> 0]}
    ELSE UNION {
           IF f.raised # "none"
           THEN {[raised |-> f.raised, results |-> <<>>, store |-> f.store,
                  runs |-> f.runs]}
           ELSE {[raised |-> r.raised,
                  results |-> IF r.raised = "none"
                              THEN <<SlotEnvelope(f.envelope)>> \o r.results ELSE <<>>,
                  store |-> r.store,
                  runs |-> f.runs + r.runs] :
                    r \in CachedRequestList(c, f.store, Tail(list), is_async, t)}
           : f \in ProcessSingle(c, store, Head(list), is_async, t) }

DispatchClients ==
    { NewCachingClient(NewClient(Some(0), NoRetryConfigArg, "json", "default", MaxWorkers),
                       Some(DEFAULT_CACHE_EXPIRE), None, None, enabled, MaxSize) :
        enabled \in BOOLEAN }

InitDispatch ==
    /\ client \in DispatchClients
    /\ request_list \in Lists(PoolSpecs, MaxBatch)
    /\ last = NoDispatch
    /\ cache = <<>>
    /\ now = 0
    /\ futures = <<>>
    /\ results = <<>>
    /\ pc = "idle"
    /\ threads = <<>>
    /\ lock = None

\* client.request(request_list, is_async): _cached_request when the cache was
\* enabled at construction, else BaseClient.request
RequestList ==
    /\ ~last.called
    /\ \E is_async \in BOOLEAN :
          IF client.cache_enabled
          THEN \E r \in CachedRequestList(client, cache, request_list, is_async, now) :
                  /\ last' = Dispatched(is_async, r.raised, r.results, <<>>, r.runs)
                  /\ cache' = r.store
          ELSE \E d \in BaseRequestList(client.base, request_list, is_async) :
                  /\ last' = d
                  /\ cache' = cache
    /\ UNCHANGED <<client, now, request_list, futures, results, pc, threads, lock>>

NextDispatch == RequestList

SpecDispatch == InitDispatch /\ [][NextDispatch]_vars

\* C20: for every client, with or without the cache enabled, a call of
\* request with a non-empty list and is_async true hands the list to the
\* configured executor's execute and runs no spec in the calling thread.
C20_AsyncListDelegated ==
    (last.called /\ last.is_async /\ request_list # <<>>) =>
        /\ last.executor_lists = <<request_list>>
        /\ last.caller_runs = 0

\* the results a list call may hold at position i: the envelope of one run of
\* the i-th spec
SlotsOf(c, spec) ==
    {SlotEnvelope(o.envelope) : o \in {x \in TaskOutcomes(c, spec) : x.raised = "none"}}

\* C21: request(list, is_async false) returns, for a list of N specs, N
\* outcomes with outcome i that of spec i, run in the calling thread and not
\* by the executor, a failing item not keeping the later items from running;
\* for the empty list it returns the empty list and runs nothing.
C21_SyncListInOrder ==
    (last.called /\ ~last.is_async) =>
        /\ last.raised = "none"
        /\ last.executor_lists = <<>>
        /\ Len(last.results) = Len(request_list)
        /\ \A i \in 1..Len(request_list) :
              last.results[i] \in SlotsOf(client.base, request_list[i])
        /\ ~client.cache_enabled => last.caller_runs = Len(request_list)
        /\ request_list = <<>> => last.caller_runs = 0

\* ---------------------------------------------------- request(request_data)
\* The values request can be called with: None, a dict, a list whose items
\* are dicts or other values (an int, a str), or a value that is none of these.
DictItem(spec) == [is_dict |-> TRUE, spec |-> spec]
NonDictItem == [is_dict |-> FALSE, spec |-> RequestSpec(None, None, None, None, None, None)]
RequestData(kind, items) == [kind |-> kind, items |-> items]

\* what a call of request did: what it raised, whether it returned one result
\* or a list, the results, and the calls of the transport it made
Requested(is_async, raised, single, res, transport_calls) ==
    [called |-> TRUE, is_async |-> is_async, raised |-> raised, single |-> single,
     results |-> res, transport_calls |-> transport_calls]

NoRequest ==
    [called |-> FALSE, is_async |-> FALSE, raised |-> "none", single |-> FALSE,
     results |-> <<>>, transport_calls |-> 0]

\* _make_request_and_format(request_id, config) for an item of any type:
\* request_config.get raises AttributeError for a value that is no dict
ItemOutcomes(c, item) ==
    IF item.is_dict
    THEN {[raised |-> o.raised, envelope |-> o.envelope,
           transport_calls |-> o.transport_calls] : o \in TaskOutcomes(c, item.spec)}
    ELSE {[raised |-> "AttributeError", envelope |-> NoEnvelope, transport_calls |-> 0]}

\* executor_instance.execute(self, request_data) for items of any type
RECURSIVE ExecuteItems(_, _)
ExecuteItems(c, items) ==
    IF items = <<>> THEN {[results |-> <<>>, transport_calls |-> 0]}
    ELSE {[results |-> <<SlotFor(o)>> \o rest.results,
           transport_calls |-> o.transport_calls + rest.transport_calls] :
            o \in ItemOutcomes(c, Head(items)), rest \in ExecuteItems(c, Tail(items))}

\* _execute_sync_requests for items of any type
RECURSIVE SyncItems(_, _)
SyncItems(c, items) ==
    IF items = <<>> THEN {[raised |-> "none", results |-> <<>>, transport_calls |-> 0]}
    ELSE UNION {
           IF o.raised # "none"
           THEN {[raised |-> o.raised, results |-> <<>>,
                  transport_calls |-> o.transport_calls]}
           ELSE {[raised |-> r.raised,
                  results |-> IF r.raised = "none"
                              THEN <<SlotEnvelope(o.envelope)>> \o r.results ELSE <<>>,
                  transport_calls |-> o.transport_calls + r.transport_calls] :
                    r \in SyncItems(c, Tail(items))}
           : o \in ItemOutcomes(c, Head(items)) }

\* BaseClient.request(request_data, is_async)
BaseRequest(c, data, is_async) ==
    CASE data.kind \in {"none", "dict"} ->
           LET item == IF data.kind = "none"
                       THEN DictItem(RequestSpec(None, None, None, None, None, None))
                       ELSE data.items[1] IN
           {Requested(is_async, o.raised, TRUE,
                      IF o.raised = "none" THEN <<SlotEnvelope(o.envelope)>> ELSE <<>>,
                      o.transport_calls) : o \in ItemOutcomes(c, item)}
      [] data.kind = "list" ->
           IF data.items = <<>> THEN {Requested(is_async, "none", FALSE, <<>>, 0)}
           ELSE IF is_async
           THEN {Requested(is_async, "none", FALSE, r.results, r.transport_calls) :
                    r \in ExecuteItems(c, data.items)}
           ELSE {Requested(is_async, r.raised, FALSE, r.results, r.transport_calls) :
                    r \in SyncItems(c, data.items)}
      [] OTHER ->
           {Requested(is_async, "APIClientValidationError", FALSE, <<>>, 0)}

\* _process_single_request(request_data, is_async) for a value of any type:
\* a value that is no dict has no cache key and goes to the original request
ProcessSingleData(c, store, data, is_async, t) ==
    LET spec == data.items[1].spec
        key == IF data.kind = "dict" /\ data.items[1].is_dict
               THEN GetCacheKey(c, spec) ELSE None
        original == {[r |-> r, store |-> store] : r \in BaseRequest(c.base, data, is_async)}
    IN
    IF IsNone(key) \/ spec.cache = Some(FALSE) THEN original
    ELSE LET got == CacheGet(store, Val(key), t) IN
         IF ~IsNone(got.value)
         THEN {[r |-> Requested(is_async, "none", TRUE,
                                <<SlotEnvelope(Val(got.value))>>, 0),
                store |-> got.store]}
         ELSE {[r |-> r,
                store |-> IF ~is_async /\ r.raised = "none" /\ r.results[1].envelope.result
                          THEN CacheSet(got.store, c.maxsize, Val(key),
                                        r.results[1].envelope, ExpireFor(c, spec), t)
                          ELSE got.store] :
                 r \in BaseRequest(c.base, data, is_async)}

\* the value a list item is when handed to _process_single_request
ItemData(item) ==
    IF item.is_dict THEN RequestData("dict", <<item>>) ELSE RequestData("scalar", <<>>)

\* [self._process_single_request(item, is_async) for item in request_data]
RECURSIVE ProcessItems(_, _, _, _, _)
ProcessItems(c, store, items, is_async, t) ==
    IF items = <<>>
    THEN {[raised |-> "none", results |-> <<>>, transport_calls |-> 0, store |-> store]}
    ELSE UNION {
           IF f.r.raised # "none"
           THEN {[raised |-> f.r.raised, results |-> <<>>,
                  transport_calls |-> f.r.transport_calls, store |-> f.store]}
           ELSE {[raised |-> rest.raised,
                  results |-> IF rest.raised = "none"
                              THEN f.r.results \o rest.results ELSE <<>>,
                  transport_calls |-> f.r.transport_calls + rest.transport_calls,
                  store |-> rest.store] :
                    rest \in ProcessItems(c, f.store, Tail(items), is_async, t)}
           : f \in ProcessSingleData(c, store, ItemData(Head(items)), is_async, t) }

\* _cached_request(request_data, is_async)
CachedRequest(c, store, data, is_async, t) ==
    IF data.kind = "list"
    THEN {[r |-> Requested(is_async, p.raised, FALSE, p.results, p.transport_calls),
           store |-> p.store] : p \in ProcessItems(c, store, data.items, is_async, t)}
    ELSE ProcessSingleData(c, store, data, is_async, t)

\* the values request is called with
RequestItems == {DictItem(spec) : spec \in PoolSpecs} \cup {NonDictItem}

RequestDatas ==
    {RequestData("none", <<>>), RequestData("scalar", <<>>)}
    \cup {RequestData("dict", <<DictItem(spec)>>) : spec \in PoolSpecs}
    \cup {RequestData("list", items) : items \in Lists(RequestItems, MaxBatch)}

InitInput ==
    /\ client \in DispatchClients
    /\ request_list \in RequestDatas
    /\ last = NoRequest
    /\ cache = <<>>
    /\ now = 0
    /\ futures = <<>>
    /\ results = <<>>
    /\ pc = "idle"
    /\ threads = <<>>
    /\ lock = None

\* client.request(request_data, is_async): _cached_request when the cache was
\* enabled at construction, else BaseClient.request
RequestWithData ==
    /\ ~last.called
    /\ \E is_async \in BOOLEAN :
          IF client.cache_enabled
          THEN \E p \in CachedRequest(client, cache, request_list, is_async, now) :
                  /\ last' = p.r
                  /\ cache' = p.store
          ELSE \E r \in BaseRequest(client.base, request_list, is_async) :
                  /\ last' = r
                  /\ cache' = cache
    /\ UNCHANGED <<client, now, request_list, futures, results, pc, threads, lock>>

NextInput == RequestWithData

SpecInput == InitInput /\ [][NextInput]_vars

\* a value that is neither a dict (or None, the empty dict) nor a list of dicts
Malformed(data) ==
    \/ data.kind = "scalar"
    \/ data.kind = "list" /\ \E i \in 1..Len(data.items) : ~data.items[i].is_dict

\* C22: request raises APIClientValidationError, without any call of the
\* transport, for every value that is neither a dict nor a list of dicts, and
\* no other exception ever propagates out of request.
C22_OnlyValidationError ==
    last.called =>
        /\ Malformed(request_list) =>
              /\ last.raised = "APIClientValidationError"
              /\ last.transport_calls = 0
        /\ last.raised \in {"none", "APIClientValidationError"}

\* ------------------------------------------------------ strategy resolution
\* What can be supplied for a strategy, as a constructor argument or as the
\* class attribute: nothing, an instance of the strategy's base class, a
\* subclass of it whose constructor returns, a subclass whose constructor
\* raises, or a value that is neither.
Supplied == {"none", "instance", "type", "failing_type", "invalid"}

\* the outcome of a resolution: the exception raised, or how the strategy was
\* obtained (the supplied instance as it is, a new instance of the supplied
\* type, the built-in default, or no strategy), from which tier, and whether
\* the failure was logged
Resolved(raised, how, tier, logged) ==
    [called |-> TRUE, raised |-> raised, how |-> how, tier |-> tier, logged |-> logged]

NoResolve ==
    [called |-> FALSE, raised |-> "none", how |-> "none", tier |-> "none", logged |-> FALSE]

\* authentication() / executor(max_workers=...) and the isinstance branches:
\* no try around the instantiation, APIClientValidationError for other values
InstanceOrRaise(source, tier) ==
    CASE source = "type" -> Resolved("none", "instantiated", tier, FALSE)
      [] source = "failing_type" -> Resolved("Exception", "none", "none", FALSE)
      [] source = "instance" -> Resolved("none", "as_is", tier, FALSE)
      [] OTHER -> Resolved("APIClientValidationError", "none", "none", FALSE)

\* BaseClient._resolve_authentication
ResolveAuthentication(authentication, class_auth) ==
    IF authentication # "none" THEN InstanceOrRaise(authentication, "call")
    ELSE IF class_auth = "none" THEN Resolved("none", "none", "none", FALSE)
    ELSE InstanceOrRaise(class_auth, "class")

\* BaseClient._resolve_executor
ResolveExecutor(executor, class_executor) ==
    IF executor # "none" THEN InstanceOrRaise(executor, "call")
    ELSE IF class_executor = "none" THEN Resolved("none", "builtin", "none", FALSE)
    ELSE InstanceOrRaise(class_executor, "class")

\* mutant: the parser's constructor is called outside any try
ResolveResponseParserUnguarded(response_parser, class_parser) ==
    LET tier == IF response_parser # "none" THEN "call" ELSE "class"
        source == IF response_parser # "none" THEN response_parser ELSE class_parser IN
    IF source = "none" THEN Resolved("none", "none", "none", FALSE)
    ELSE InstanceOrRaise(source, tier)

\* BaseClient._resolve_response_parser
ResolveResponseParser(response_parser, class_parser) ==
    LET tier == IF response_parser # "none" THEN "call" ELSE "class"
        source == IF response_parser # "none" THEN response_parser ELSE class_parser IN
    CASE source = "none" -> Resolved("none", "none", "none", FALSE)
      [] source = "type" -> Resolved("none", "instantiated", tier, FALSE)
      [] source = "failing_type" -> Resolved("none", "builtin", "none", TRUE)
      [] source = "instance" -> Resolved("none", "as_is", tier, FALSE)
      [] OTHER -> Resolved("none", "builtin", "none", TRUE)

\* BaseClient._resolve_response_formatter
ResolveResponseFormatter(response_formatter, class_formatter) ==
    LET tier == IF response_formatter # "none" THEN "call" ELSE "class"
        source == IF response_formatter # "none" THEN response_formatter
                  ELSE class_formatter IN
    CASE source = "none" -> Resolved("none", "none", "none", FALSE)
      [] source = "type" -> Resolved("none", "instantiated", tier, FALSE)
      [] source = "failing_type" -> Resolved("none", "builtin", "none", TRUE)
      [] source = "instance" -> Resolved("none", "as_is", tier, FALSE)
      [] OTHER -> Resolved("none", "builtin", "none", TRUE)

\* CacheClientMixin._init_cache_backend: self.cache_backend_class(**kwargs) in
\* a try; calling a value that is no class (an instance, None) raises TypeError
InitCacheBackend(cache_backend_class) ==
    IF cache_backend_class = "type" THEN Resolved("none", "instantiated", "class", FALSE)
    ELSE Resolved("none", "builtin", "none", TRUE)

StrategyKinds == {"authentication", "executor", "parser", "formatter", "cache_backend"}

\* the constructor has no argument for the cache backend
ResolutionInputs ==
    {i \in [kind : StrategyKinds, arg : Supplied, class : Supplied] :
        i.kind = "cache_backend" => i.arg = "none"}

InitResolve ==
    /\ client \in ResolutionInputs
    /\ last = NoResolve
    /\ cache = <<>>
    /\ now = 0
    /\ request_list = <<>>
    /\ futures = <<>>
    /\ results = <<>>
    /\ pc = "idle"
    /\ threads = <<>>
    /\ lock = None

\* the resolution of one strategy while the client is constructed
Resolve ==
    /\ ~last.called
    /\ last' = CASE client.kind = "authentication" ->
                      ResolveAuthentication(client.arg, client.class)
                 [] client.kind = "executor" -> ResolveExecutor(client.arg, client.class)
                 [] client.kind = "parser" ->
                      ResolveResponseParser(client.arg, client.class)
                 [] client.kind = "formatter" ->
                      ResolveResponseFormatter(client.arg, client.class)
                 [] OTHER -> InitCacheBackend(client.class)
    /\ UNCHANGED <<client, cache, now, request_list, futures, results, pc, threads, lock>>

NextResolve == Resolve

SpecResolve == InitResolve /\ [][NextResolve]_vars

\* the value the rule resolves: the call-site one, else the class-level one
ResolvedSource == IF client.arg # "none" THEN client.arg ELSE client.class
ResolvedTier == IF client.arg # "none" THEN "call" ELSE "class"

\* C23 as stated: for each of the five kinds a supplied instance is used as it
\* is, a supplied type is instantiated, and when the instantiation fails the
\* built-in default is used and the failure logged, for the call-site value
\* and, when there is none, for the class-level one.
C23_UniformResolution ==
    last.called =>
        /\ ResolvedSource = "instance" =>
              last.raised = "none" /\ last.how = "as_is" /\ last.tier = ResolvedTier
        /\ ResolvedSource = "type" =>
              last.raised = "none" /\ last.how = "instantiated" /\ last.tier = ResolvedTier
        /\ ResolvedSource = "failing_type" =>
              last.raised = "none" /\ last.how = "builtin" /\ last.logged

\* C23 amended: the rule as stated holds for parser and formatter; for
\* authentication and executor a failing instantiation propagates out of the
\* constructor; the cache backend is always the class-level value called as a
\* constructor, the in-memory backend replacing it, logged, when that fails,
\* also when the value is an instance.
C23_ResolutionPerKind ==
    last.called =>
        /\ client.kind # "cache_backend" =>
              /\ ResolvedSource = "instance" =>
                    last.raised = "none" /\ last.how = "as_is" /\ last.tier = ResolvedTier
              /\ ResolvedSource = "type" =>
                    /\ last.raised = "none" /\ last.how = "instantiated"
                    /\ last.tier = ResolvedTier
        /\ client.kind \in {"parser", "formatter"} /\ ResolvedSource = "failing_type" =>
              last.raised = "none" /\ last.how = "builtin" /\ last.logged
        /\ client.kind \in {"authentication", "executor"}
              /\ ResolvedSource = "failing_type" =>
              last.raised = "Exception" /\ last.how = "none"
        /\ client.kind = "cache_backend" =>
              /\ last.raised = "none"
              /\ client.class = "type" =>
                    last.how = "instantiated" /\ last.tier = "class"
              /\ client.class # "type" => last.how = "builtin" /\ last.logged

\* a parser class whose constructor raises was supplied at the call site and
\* the built-in parser was used
C23_Witness ==
    /\ last.called
    /\ client.kind = "parser" /\ client.arg = "failing_type"
    /\ last.how = "builtin" /\ last.logged

\* ------------------------------------------ the client as a managed context
\* How a client is constructed and used: in a with statement of the caller or
\* by the class-level call Client.request(request_data, **client_kwargs); the
\* class (BaseClient alone, with CacheClientMixin, with CacheClientMixin and
\* is_user_specific but no user_identifier given) and the constructor
\* arguments that can make the constructor raise.
ManagedUses ==
    [usage : {"with", "class_call"},
     base_url_set : BOOLEAN,
     authentication : {"none", "type", "failing_type"},
     retry_config_valid : BOOLEAN,
     class : {"base", "cache", "cache_user_specific"}]

\* the client the body of the with statement works on
ManagedClient(use) ==
    NewCachingClient(NewClient(None, NoRetryConfigArg, "json", "default", MaxWorkers),
                     Some(DEFAULT_CACHE_EXPIRE), None, None, use.class # "base", MaxSize)

\* the session of the client, what the statement raised, what the body raised
Managed(session, raised, body_raised) ==
    [session |-> session, raised |-> raised, body_raised |-> body_raised]

InitManaged ==
    /\ client \in ManagedUses
    /\ request_list \in {d \in RequestDatas : d.kind # "list"}
    /\ last = Managed("none", "none", "none")
    /\ pc = "construct"
    /\ cache = <<>>
    /\ now = 0
    /\ futures = <<>>
    /\ results = <<>>
    /\ threads = <<>>
    /\ lock = None

ManagedRest == <<client, request_list, now, futures, results, threads, lock>>

\* owner(**client_kwargs): BaseClient.__init__ checks base_url, resolves the
\* strategies and creates the session last, requests.Session() first and
\* Retry(**self.retry_config) after it; CacheClientMixin.__init__ then raises
\* ValueError for a user-specific class without user_identifier
Construct ==
    /\ pc = "construct"
    /\ LET auth == ResolveAuthentication(client.authentication, "none") IN
       CASE ~client.base_url_set ->
              /\ last' = Managed("none", "APIClientValidationError", "none")
              /\ pc' = "done"
         [] client.base_url_set /\ auth.raised # "none" ->
              /\ last' = Managed("none", auth.raised, "none")
              /\ pc' = "done"
         [] client.base_url_set /\ auth.raised = "none" /\ ~client.retry_config_valid ->
              /\ last' = Managed("open", "TypeError", "none")
              /\ pc' = "done"
         [] client.base_url_set /\ auth.raised = "none" /\ client.retry_config_valid
              /\ client.class = "cache_user_specific" ->
              /\ last' = Managed("open", "ValueError", "none")
              /\ pc' = "done"
         [] OTHER ->
              /\ last' = Managed("open", "none", "none")
              /\ pc' = "enter"
    /\ UNCHANGED <<cache>>
    /\ UNCHANGED ManagedRest

\* __enter__ returns the client
Enter ==
    /\ pc = "enter"
    /\ pc' = "body"
    /\ UNCHANGED <<last, cache>>
    /\ UNCHANGED ManagedRest

\* the body of the with statement: a call of request on the client, which
\* returns or raises
Body ==
    /\ pc = "body"
    /\ \E is_async \in BOOLEAN :
         LET c == ManagedClient(client) IN
         IF c.cache_enabled
         THEN \E p \in CachedRequest(c, cache, request_list, is_async, now) :
                 /\ last' = [last EXCEPT !.body_raised = p.r.raised]
                 /\ cache' = p.store
         ELSE \E r \in BaseRequest(c.base, request_list, is_async) :
                 /\ last' = [last EXCEPT !.body_raised = r.raised]
                 /\ cache' = cache
    /\ pc' = "exit"
    /\ UNCHANGED ManagedRest

\* __exit__: self.close(), which closes the session; an exception of the
\* body propagates
Exit ==
    /\ pc = "exit"
    /\ last' = [last EXCEPT !.session = IF @ = "open" THEN "closed" ELSE @,
                            !.raised = last.body_raised]
    /\ pc' = "done"
    /\ UNCHANGED <<cache>>
    /\ UNCHANGED ManagedRest

NextManaged == Construct \/ Enter \/ Body \/ Exit

SpecManaged == InitManaged /\ [][NextManaged]_vars

\* C24: once the with statement of a managed client is over, the one inside
\* the class-level Client.request(...) included, whether it returned or
\* raised, no session created for it is open.
C24_NoSessionLeftOpen == pc = "done" => last.session # "open"

\* --------------------------------------------------- FileWriteResponseParser
\* str.split("/")[-1]: what follows the last "/"
RECURSIVE AfterLastSlash(_)
AfterLastSlash(s) ==
    IF s = <<>> \/ s[Len(s)] = "/" THEN <<>>
    ELSE AfterLastSlash(SubSeq(s, 1, Len(s) - 1)) \o <<s[Len(s)]>>

\* url_path.rstrip("/").split("/")[-1]
LastSegment(url) == AfterLastSlash(RStrip(url))

\* bool(value) of an optional string: None and "" are falsy
TruthyString(o) == ~IsNone(o) /\ Val(o) # <<>>

\* FileWriteResponseParser.parse: the name of the file written, the transient
\* _current_filename when there is one, else the last segment of the URL
FileName(current_filename, url) ==
    IF TruthyString(current_filename) THEN Val(current_filename) ELSE LastSegment(url)

\* os.path.join(self.base_path, filename)
FilePath(filename) == <<".", "/", "downloads", "/">> \o filename
FileWriteErrorText == "OSError"

\* what one call did to a client with a file-write parser: what it raised or
\* returned, the file name parse chose, and the parser's _current_filename
\* when the call is over
FileCall(raised, envelope, filename_used, current_filename) ==
    [raised |-> raised, envelope |-> envelope, filename_used |-> filename_used,
     current_filename |-> current_filename]

\* mutant: the transient name is removed after the try statement, not in a
\* finally clause
MakeRequestAndFormatFileNoFinally(c, current_filename, spec, run, writeOk) ==
    LET override == IF TruthyString(spec.filename) THEN spec.filename ELSE current_filename
        made == MakeRequest(c, spec, run)
        parses == made.k = "response"
        filename == FileName(override, made.url)
        parsed_data == IF parses /\ writeOk THEN Some(FilePath(filename)) ELSE None
        parse_error == IF parses /\ ~writeOk THEN Some(FileWriteErrorText) ELSE None
    IN
    IF made.k = "raise"
    THEN FileCall(made.exc, NoEnvelope, None, override)
    ELSE FileCall("none",
                  IF c.formatter # "none"
                  THEN FormatOrFallback(c, made, parsed_data, parse_error)
                  ELSE NoFormatterEnvelope(made, parsed_data, parse_error),
                  IF parses THEN Some(filename) ELSE None,
                  None)

\* _make_request_and_format on a client whose parser is a
\* FileWriteResponseParser carrying current_filename: step 1 sets the
\* transient name from the spec, parse reads it, the finally clause removes it
MakeRequestAndFormatFile(c, current_filename, spec, run, writeOk) ==
    LET override == IF TruthyString(spec.filename) THEN spec.filename ELSE current_filename
        made == MakeRequest(c, spec, run)
        parses == made.k = "response"
        filename == FileName(override, made.url)
        parsed_data == IF parses /\ writeOk THEN Some(FilePath(filename)) ELSE None
        parse_error == IF parses /\ ~writeOk THEN Some(FileWriteErrorText) ELSE None
    IN
    IF made.k = "raise"
    THEN FileCall(made.exc, NoEnvelope, None, None)
    ELSE FileCall("none",
                  IF c.formatter # "none"
                  THEN FormatOrFallback(c, made, parsed_data, parse_error)
                  ELSE NoFormatterEnvelope(made, parsed_data, parse_error),
                  IF parses THEN Some(filename) ELSE None,
                  None)

FileSpecs ==
    { RequestSpec(None, Some(e), None, f, None, None) :
        e \in {<<"a">>, <<"d", "/", "b", "/">>},
        f \in {None, Some(<<"f">>), Some(<<"g">>)} }

\* clients with a file-write parser; current_filename is the parser's
\* transient attribute, absent after construction
FileClients ==
    { [base |-> NewClient(Some(0), NoRetryConfigArg, "file", f, 1),
       current_filename |-> None] : f \in {"default", "none"} }

\* the calls made so far: their number, the spec and outcome of the last one
\* and what the one before it was given as filename
FileCalled(calls, spec, out, before) ==
    [calls |-> calls, spec |-> spec, out |-> out, before |-> before]

InitFile ==
    /\ client \in FileClients
    /\ last = FileCalled(0, RequestSpec(None, None, None, None, None, None),
                         FileCall("none", NoEnvelope, None, None), None)
    /\ cache = <<>>
    /\ now = 0
    /\ request_list = <<>>
    /\ futures = <<>>
    /\ results = <<>>
    /\ pc = "idle"
    /\ threads = <<>>
    /\ lock = None

\* one call of _make_request_and_format on the client
CallWithFileParser ==
    /\ last.calls < MaxCalls
    /\ \E spec \in FileSpecs, writeOk \in BOOLEAN :
         \E run \in Runs(client.base, spec) :
            LET out == MakeRequestAndFormatFile(client.base, client.current_filename,
                                                spec, run, writeOk) IN
            /\ last' = FileCalled(last.calls + 1, spec, out, last.spec.filename)
            /\ client' = [client EXCEPT !.current_filename = out.current_filename]
    /\ UNCHANGED <<cache, now, request_list, futures, results, pc, threads, lock>>

NextFile == CallWithFileParser

SpecFile == InitFile /\ [][NextFile]_vars

\* C25: after every call of _make_request_and_format on a client with a
\* file-write parser, whatever its outcome, the parser carries no transient
\* filename, and a call whose spec has no filename writes to the file named
\* after the URL, never to one named by an earlier call.
C25_NoFilenameCarriedOver ==
    /\ IsNone(client.current_filename)
    /\ (last.calls > 0 /\ IsNone(last.spec.filename) /\ ~IsNone(last.out.filename_used)) =>
          Val(last.out.filename_used) = LastSegment(Url(client.base, last.spec))

\* a call given a filename was followed by a call without one, which wrote
\* the file named after its URL
C25_Witness ==
    /\ last.calls = 2
    /\ ~IsNone(last.before)
    /\ IsNone(last.spec.filename)
    /\ last.out.filename_used = Some(<<"b">>)
    /\ IsNone(client.current_filename)

\* ------------------------------------------------------ ab_hash: count_md5
\* Strings are sequences of characters.  A value is an int, a str, or a
\* reference to an object of the heap: a dict (its items in insertion order),
\* a list, a function (its __name__) or an object of another type (the name
\* of its type).
IntValue(n) == [t |-> "int", n |-> n, s |-> <<>>, id |-> 0]
StrValue(s) == [t |-> "str", n |-> 0, s |-> s, id |-> 0]
Ref(id) == [t |-> "ref", n |-> 0, s |-> <<>>, id |-> id]
HeapItem(k, v) == [k |-> k, v |-> v]
DictObject(items) == [t |-> "dict", items |-> items, name |-> <<>>]
ListObject(values) ==
    [t |-> "list", items |-> [i \in 1..Len(values) |-> HeapItem(<<>>, values[i])],
     name |-> <<>>]
FunctionObject(name) == [t |-> "function", items |-> <<>>, name |-> name]
OtherObject(name) == [t |-> "object", items |-> <<>>, name |-> name]

\* the characters that occur, in the order of their code points
CharOrder ==
    <<" ", "'", ",", "-", ".", "0", "1", "2", "3", "4", "5", "6", "7", "8", "9", ":",
      "[", "]", "_", "a", "b", "c", "d", "f", "i", "l", "o", "s", "{", "}">>
CharRank(c) == CHOOSE i \in 1..Len(CharOrder) : CharOrder[i] = c

\* s < t for two str
RECURSIVE StrLess(_, _)
StrLess(s, t) ==
    IF t = <<>> THEN FALSE
    ELSE IF s = <<>> THEN TRUE
    ELSE IF Head(s) = Head(t) THEN StrLess(Tail(s), Tail(t))
    ELSE CharRank(Head(s)) < CharRank(Head(t))

\* sorted(...) of Python: stable, on pairs of a sort key and an item
RECURSIVE InsertSorted(_, _)
InsertSorted(sorted, x) ==
    IF sorted = <<>> THEN <<x>>
    ELSE IF StrLess(x.key, Head(sorted).key) THEN <<x>> \o sorted
    ELSE <<Head(sorted)>> \o InsertSorted(Tail(sorted), x)

RECURSIVE StableSorted(_)
StableSorted(pairs) ==
    IF pairs = <<>> THEN <<>>
    ELSE InsertSorted(StableSorted(SubSeq(pairs, 1, Len(pairs) - 1)), pairs[Len(pairs)])

\* str(n) for an int
RECURSIVE Digits(_)
Digits(n) == IF n < 10 THEN <<ToString(n)>> ELSE Digits(n \div 10) \o <<ToString(n % 10)>>
IntStr(n) == IF n < 0 THEN <<"-">> \o Digits(0 - n) ELSE Digits(n)

Range(s) == {s[i] : i \in 1..Len(s)}

\* repr(x): a container that is being printed already is printed as [...] or
\* {...}
RECURSIVE Repr(_, _, _)
RECURSIVE ReprItems(_, _, _, _)
ReprItems(heap, items, is_dict, stack) ==
    IF items = <<>> THEN <<>>
    ELSE LET x == Head(items)
             one == IF is_dict
                    THEN <<"'">> \o x.k \o <<"'", ":", " ">> \o Repr(heap, x.v, stack)
                    ELSE Repr(heap, x.v, stack) IN
         IF Tail(items) = <<>> THEN one
         ELSE one \o <<",", " ">> \o ReprItems(heap, Tail(items), is_dict, stack)

Repr(heap, x, stack) ==
    CASE x.t = "int" -> IntStr(x.n)
      [] x.t = "str" -> <<"'">> \o x.s \o <<"'">>
      [] OTHER ->
           LET o == heap[x.id] IN
           CASE o.t = "dict" ->
                  IF x.id \in stack THEN <<"{", ".", ".", ".", "}">>
                  ELSE <<"{">> \o ReprItems(heap, o.items, TRUE, stack \cup {x.id})
                       \o <<"}">>
             [] o.t = "list" ->
                  IF x.id \in stack THEN <<"[", ".", ".", ".", "]">>
                  ELSE <<"[">> \o ReprItems(heap, o.items, FALSE, stack \cup {x.id})
                       \o <<"]">>
             [] OTHER -> o.name

\* _stable_order_key(x): a flag of the type, ":" and repr(x)
StableOrderKey(heap, x) ==
    LET type_flag == CASE x.t = "str" -> <<"s">>
                       [] x.t = "int" -> <<"i">>
                       [] OTHER ->
                            CASE heap[x.id].t = "dict" -> <<"o", "_", "d">>
                              [] heap[x.id].t = "list" -> <<"o", "_", "l">>
                              [] heap[x.id].t = "function" -> <<"o", "_", "f">>
                              [] OTHER -> <<"o", "_", "o">> IN
    type_flag \o <<":">> \o Repr(heap, x, {})

\* hash(content) of a base type, as text: the int itself except that
\* hash(-1) is -2; the hash of a str is taken to tell all str apart
PyHash(content) ==
    IF content.t = "int"
    THEN IntStr(IF content.n = -1 THEN -2 ELSE content.n)
    ELSE <<"hash(">> \o content.s \o <<")">>

\* hashlib.md5 fed with the bytes given, hexdigest(): taken to tell all
\* inputs apart
Md5(fed) == <<"md5(">> \o fed \o <<")">>

\* what a call returns or raises
Returns(value) == [raised |-> "none", value |-> value]
Raises(exc) == [raised |-> exc, value |-> <<>>]

\* mutant: no object is ever found on the path
InPathNever(obj_id, path_ids) == FALSE

\* obj_id in _path_ids
InPath(obj_id, path_ids) == obj_id \in Range(path_ids)

\* count_md5(content, dict_sort, list_sort, _path_ids).  The interpreter
\* raises RecursionError when the calls nest deeper than its recursion limit.
RECURSIVE CountMd5(_, _, _, _, _)
RECURSIVE FedItems(_, _, _, _, _, _)
FedItems(heap, items, is_dict, dict_sort, list_sort, path_ids) ==
    IF items = <<>> THEN Returns(<<>>)
    ELSE LET x == Head(items)
             sub == CountMd5(heap, x.v, dict_sort, list_sort, path_ids) IN
         IF sub.raised # "none" THEN sub
         ELSE LET rest == FedItems(heap, Tail(items), is_dict, dict_sort, list_sort,
                                   path_ids) IN
              IF rest.raised # "none" THEN rest
              ELSE Returns((IF is_dict
                            THEN <<"k:">> \o x.k \o <<"|v:">> \o sub.value
                            ELSE <<"item:">> \o sub.value \o <<"|">>) \o rest.value)

CountMd5(heap, content, dict_sort, list_sort, path_ids) ==
    IF Len(path_ids) >= RecursionLimit THEN Raises("RecursionError")
    ELSE IF content.t = "ref" /\ InPath(content.id, path_ids)
    THEN Returns(<<"circular_ref_hash">>)
    ELSE IF content.t \in {"int", "str"} THEN Returns(<<"base:">> \o PyHash(content))
    ELSE
      LET o == heap[content.id]
          pushed == Append(path_ids, content.id)
          keyed == IF o.t = "dict"
                   THEN [i \in 1..Len(o.items) |-> [key |-> o.items[i].k, item |-> o.items[i]]]
                   ELSE [i \in 1..Len(o.items) |->
                           [key |-> StableOrderKey(heap, o.items[i].v), item |-> o.items[i]]]
          sorts == IF o.t = "dict" THEN dict_sort ELSE list_sort
          ordered == IF sorts
                     THEN LET s == StableSorted(keyed) IN [i \in 1..Len(s) |-> s[i].item]
                     ELSE o.items
      IN
      CASE o.t \in {"dict", "list"} ->
             LET fed == FedItems(heap, ordered, o.t = "dict", dict_sort, list_sort, pushed) IN
             IF fed.raised # "none" THEN fed ELSE Returns(Md5(fed.value))
        [] o.t = "function" -> Returns(Md5(<<"fn:">> \o o.name))
        [] OTHER -> Returns(Md5(<<"obj:">> \o o.name))

\* a 32-character hexadecimal digest: what hexdigest() returned
IsDigest(r) == r.raised = "none" /\ r.value # <<>> /\ Head(r.value) = "md5("

\* ------------------------------------------- count_md5 on two dicts
PairAtoms == {IntValue(1), IntValue(-1), IntValue(-2)}
NestedAtoms == {IntValue(1), IntValue(-1)}

\* the dicts with the keys of ks, inserted in that order, and values of V
DictsOf(ks, V) ==
    {DictObject([i \in 1..Len(ks) |-> HeapItem(ks[i], f[i])]) : f \in [1..Len(ks) -> V]}

KeyOrders == {<<>>, <<<<"a">>>>, <<<<"b">>>>, <<<<"a">>, <<"b">>>>, <<<<"b">>, <<"a">>>>}

\* two dicts, objects 1 and 2, whose values are ints or, each, a nested dict
\* of its own, objects 3 and 4, with the keys a and b in either order
PairHeaps ==
    {<<d1, d2, n1, n2>> :
        d1 \in UNION {DictsOf(ks, PairAtoms \cup {Ref(3)}) : ks \in KeyOrders},
        d2 \in UNION {DictsOf(ks, PairAtoms \cup {Ref(4)}) : ks \in KeyOrders},
        n1 \in {DictObject(<<HeapItem(<<"a">>, IntValue(1)), HeapItem(<<"b">>, IntValue(-1))>>),
                DictObject(<<HeapItem(<<"b">>, IntValue(-1)), HeapItem(<<"a">>, IntValue(1))>>)},
        n2 \in UNION {DictsOf(ks, NestedAtoms) : ks \in {k \in KeyOrders : Len(k) = 2}}}

InitMd5 ==
    /\ request_list \in PairHeaps
    /\ client \in [dict_sort : BOOLEAN, list_sort : {TRUE}]
    /\ results = <<>>
    /\ pc = "idle"
    /\ last = NoCall
    /\ cache = <<>>
    /\ now = 0
    /\ futures = <<>>
    /\ threads = <<>>
    /\ lock = None

\* count_md5(d1, dict_sort) and count_md5(d2, dict_sort)
CountPair ==
    /\ pc = "idle"
    /\ results' = [i \in 1..2 |->
                     CountMd5(request_list, Ref(i), client.dict_sort, client.list_sort, <<>>)]
    /\ pc' = "done"
    /\ UNCHANGED <<client, last, cache, now, request_list, futures, threads, lock>>

NextMd5 == CountPair

SpecMd5 == InitMd5 /\ [][NextMd5]_vars

\* v == w of Python, for values that contain no cycle
RECURSIVE SameContent(_, _, _)
SameContent(heap, v, w) ==
    IF v.t # "ref" \/ w.t # "ref" THEN v.t = w.t /\ v.n = w.n /\ v.s = w.s
    ELSE LET a == heap[v.id]
             b == heap[w.id] IN
         /\ a.t = b.t
         /\ a.name = b.name
         /\ Len(a.items) = Len(b.items)
         /\ IF a.t = "dict"
            THEN \A i \in 1..Len(a.items) : \E j \in 1..Len(b.items) :
                    /\ a.items[i].k = b.items[j].k
                    /\ SameContent(heap, a.items[i].v, b.items[j].v)
            ELSE \A i \in 1..Len(a.items) :
                    SameContent(heap, a.items[i].v, b.items[i].v)

\* the same keys in both dicts
SameKeys(heap) ==
    {heap[1].items[i].k : i \in 1..Len(heap[1].items)}
        = {heap[2].items[i].k : i \in 1..Len(heap[2].items)}

\* C26: with dict_sort true, count_md5 returns the same digest for two dicts
\* of equal content whatever the insertion orders, nested dicts included, and
\* different digests for two dicts that have the same keys and differ in a
\* value.
C26_DigestTellsContent ==
    (pc = "done" /\ client.dict_sort) =>
        /\ SameContent(request_list, Ref(1), Ref(2)) => results[1] = results[2]
        /\ (SameKeys(request_list) /\ ~SameContent(request_list, Ref(1), Ref(2))) =>
              results[1] # results[2]

\* --------------------------------- count_md5 on object graphs with cycles
CycleObjects == {1, 2, 3}
CycleValues == {IntValue(1)} \cup {Ref(i) : i \in CycleObjects}
CycleKeys == <<<<"a">>, <<"b">>, <<"c">>, <<"d">>>>

\* the objects of a graph: dicts and lists of up to MaxItems items, a
\* function and an object of another type
CycleNodes ==
    UNION {
        {DictObject([i \in 1..n |-> HeapItem(CycleKeys[i], f[i])]) : f \in [1..n -> CycleValues]}
        \cup {ListObject(f) : f \in [1..n -> CycleValues]}
        : n \in 0..MaxItems }
    \cup {FunctionObject(<<"f">>), OtherObject(<<"o">>)}

InitCycle ==
    /\ request_list \in [CycleObjects -> CycleNodes]
    /\ client \in [dict_sort : {TRUE}, list_sort : BOOLEAN]
    /\ results = <<>>
    /\ pc = "idle"
    /\ last = NoCall
    /\ cache = <<>>
    /\ now = 0
    /\ futures = <<>>
    /\ threads = <<>>
    /\ lock = None

\* count_md5(x) for each object x of the graph
CountEach ==
    /\ pc = "idle"
    /\ results' = [i \in CycleObjects |->
                     CountMd5(request_list, Ref(i), client.dict_sort, client.list_sort, <<>>)]
    /\ pc' = "done"
    /\ UNCHANGED <<client, last, cache, now, request_list, futures, threads, lock>>

NextCycle == CountEach

SpecCycle == InitCycle /\ [][NextCycle]_vars

\* the objects an object refers to, and those it reaches
RefsOf(heap, i) == {heap[i].items[k].v.id : k \in {j \in 1..Len(heap[i].items) : heap[i].items[j].v.t = "ref"}}

RECURSIVE ReachedIn(_, _, _)
ReachedIn(heap, S, n) ==
    IF n = 0 THEN S ELSE ReachedIn(heap, S \cup UNION {RefsOf(heap, i) : i \in S}, n - 1)

Reaches(heap, i) == ReachedIn(heap, RefsOf(heap, i), Cardinality(CycleObjects))

\* a container from which a reference cycle is reached
ContainsCycle(heap, i) ==
    /\ heap[i].t \in {"dict", "list"}
    /\ \E j \in Reaches(heap, i) : j \in Reaches(heap, j)

SpecialChars ==
    {"+", "-", "=", "&", "|", ">", "<", "!", "(", ")", "{", "}", "[", "]", "^", "\"",
     "~", "*", "?", "\\", ":", "/", " "}

\* mutant: escapes that are there already are left in place
KeepEscapes(s) == s

\* escaped_special_chars.sub(r"\1", s): from left to right, a backslash
\* followed by a special character is replaced by that character
RECURSIVE RemoveEscapes(_)
RemoveEscapes(s) ==
    IF s = <<>> THEN <<>>
    ELSE IF Head(s) = "\\" /\ Len(s) >= 2 /\ s[2] \in SpecialChars
    THEN <<s[2]>> \o RemoveEscapes(SubSeq(s, 3, Len(s)))
    ELSE <<Head(s)>> \o RemoveEscapes(Tail(s))

\* special_chars.sub(r"\\\1", s): a backslash in front of every special
\* character
RECURSIVE AddEscapes(_)
AddEscapes(s) ==
    IF s = <<>> THEN <<>>
    ELSE (IF Head(s) \in SpecialChars THEN <<"\\", Head(s)>> ELSE <<Head(s)>>)
         \o AddEscapes(Tail(s))

\* escape_char(s) for a str
EscapeChar(s) == AddEscapes(RemoveEscapes(s))

\* a query string or a list of query strings
QueryValue(is_list, values) == [is_list |-> is_list, values |-> values]

\* escape_query_string(query_string, many)
EscapeQueryString(query_string, many) ==
    LET listed == IF many /\ ~query_string.is_list
                  THEN QueryValue(TRUE, query_string.values) ELSE query_string IN
    IF ~many
    THEN IF listed.is_list THEN listed
         ELSE QueryValue(FALSE, <<EscapeChar(listed.values[1])>>)
    ELSE QueryValue(TRUE, [i \in 1..Len(listed.values) |-> EscapeChar(listed.values[i])])

QueryChars == {"\\", "+", ":", "a"}

RECURSIVE QueryStrings(_)
QueryStrings(n) ==
    IF n = 0 THEN {<<>>}
    ELSE LET shorter == QueryStrings(n - 1) IN
         shorter \cup {Append(s, c) : s \in {x \in shorter : Len(x) = n - 1}, c \in QueryChars}

InitEscape ==
    /\ request_list \in {QueryValue(FALSE, <<s>>) : s \in QueryStrings(MaxQueryLen)}
    /\ client \in [many : BOOLEAN]
    /\ results = <<>>
    /\ pc = "idle"
    /\ last = NoCall
    /\ cache = <<>>
    /\ now = 0
    /\ futures = <<>>
    /\ threads = <<>>
    /\ lock = None

\* escape_query_string is applied to the query string, then to its own result
Escape ==
    /\ Len(results) < 2
    /\ results' = Append(results,
                         EscapeQueryString(IF results = <<>> THEN request_list
                                           ELSE results[Len(results)], client.many))
    /\ UNCHANGED <<client, last, cache, now, request_list, futures, pc, threads, lock>>

NextEscape == Escape

SpecEscape == InitEscape /\ [][NextEscape]_vars

\* every special character of s is escaped: s is made of plain characters
\* and of pairs of a backslash and a special character
RECURSIVE IsEscaped(_)
IsEscaped(s) ==
    IF s = <<>> THEN TRUE
    ELSE IF Head(s) = "\\"
    THEN Len(s) >= 2 /\ s[2] \in SpecialChars /\ IsEscaped(SubSeq(s, 3, Len(s)))
    ELSE Head(s) \notin SpecialChars /\ IsEscaped(Tail(s))

\* C28: escape_query_string returns a string whose special characters are
\* escaped already as it is, and applied to its own result it returns that
\* result: escape(escape(s)) = escape(s) for every s.
C28_NoDoubleEscape ==
    /\ (Len(results) >= 1 /\ IsEscaped(request_list.values[1])) =>
          results[1].values = request_list.values
    /\ Len(results) = 2 => results[2] = results[1]

\* the string \+ was escaped: it came back as it is, twice
C28_Witness ==
    /\ Len(results) = 2
    /\ request_list.values[1] = <<"\\", "+">>
    /\ results[2].values[1] = <<"\\", "+">>

\* -------------------------------------------------------- CeleryAsyncExecutor
\* the client handed to execute; the worker rebuilds it from base_url, timeout
\* and the class defaults, without a retry strategy
CeleryClient == NewClient(Some(0), NoRetryConfigArg, "json", "default", 1)

\* the serialized result of a task: success with status_code and url, or the
\* type name of the exception the task caught
TaskResult(success, s, url, type) == [success |-> success, s |-> s, url |-> url, type |-> type]

\* _ReconstructedClient._make_request_internal on one answer of the transport:
\* the response, or the exception it raises (TypeError when the spec holds a
\* key session.request does not take)
MakeRequestInternal(c, spec, attempt) ==
    LET url == Url(c, spec) IN
    IF ~(RequestKwargs(spec) \subseteq SessionRequestKwargs)
    THEN TaskResult(FALSE, 0, url, "TypeError")
    ELSE IF attempt.k = "response" /\ ~RaisesForStatus(attempt.s)
    THEN TaskResult(TRUE, attempt.s, url, "none")
    ELSE IF attempt.k = "response" THEN TaskResult(FALSE, 0, url, "APIClientHTTPError")
    ELSE IF attempt.k \in {"connect_timeout", "read_timeout"}
    THEN TaskResult(FALSE, 0, url, "APIClientTimeoutError")
    ELSE TaskResult(FALSE, 0, url, "APIClientNetworkError")

\* make_request_task: the whole body runs in try / except Exception, so the
\* task returns a serialized result whatever the request did
MakeRequestTask(c, spec, attempt) == MakeRequestInternal(c, spec, attempt)

\* the exception classes globals() of executors.py holds
ModuleExceptions ==
    {"APIClientError", "APIClientHTTPError", "APIClientNetworkError",
     "APIClientTimeoutError", "APIClientValidationError"}

\* an entry of final_responses: the rebuilt Response, or an exception object
FinalResponse(s, url) == [is_error |-> FALSE, s |-> s, url |-> url, type |-> "none",
                          message |-> "none"]
FinalError(type, message) == [is_error |-> TRUE, s |-> 0, url |-> <<>>, type |-> type,
                              message |-> message]

\* the body of the deserialization loop for one task result: a result that
\* does not decode, and an exception class called with message= that takes no
\* keyword (every class but APIClientHTTPError), end in the except clause
Deserialized(delivered) ==
    IF ~delivered.decodable
    THEN FinalError("APIClientError", "Deserialization error for task result")
    ELSE IF delivered.result.success
    THEN FinalResponse(delivered.result.s, delivered.result.url)
    ELSE LET exception_class == IF delivered.result.type \in ModuleExceptions
                                THEN delivered.result.type ELSE "APIClientError" IN
         IF exception_class = "APIClientHTTPError"
         THEN FinalError("APIClientHTTPError", "HTTP Unknown: No response")
         ELSE FinalError("APIClientError", "Deserialization error for task result")

\* mutant: a task result that is no success adds no entry
FinalResponsesOfSuccesses(task_results) ==
    LET kept == SelectSeq(task_results, LAMBDA d : d.decodable /\ d.result.success) IN
    [i \in 1..Len(kept) |-> Deserialized(kept[i])]

\* the loop over enumerate(task_results): one entry appended per task result
FinalResponses(task_results) == [i \in 1..Len(task_results) |-> Deserialized(task_results[i])]

\* a task of the group: PENDING, SUCCESS with the result the backend delivers
\* (decodable or not), or FAILURE when the worker is lost
CeleryTask(state, decodable, result) ==
    [state |-> state, delivered |-> [decodable |-> decodable, result |-> result]]
PendingTask == CeleryTask("PENDING", TRUE, TaskResult(FALSE, 0, <<>>, "none"))

\* what happens to a task: the answer of the transport, and how the result
\* comes back
CeleryFates ==
    { [attempt |-> Resp(200), delivery |-> "intact"],
      [attempt |-> Resp(503), delivery |-> "intact"],
      [attempt |-> Fail("read_timeout"), delivery |-> "intact"],
      [attempt |-> Resp(200), delivery |-> "undecodable"],
      [attempt |-> Resp(200), delivery |-> "lost"] }

ExecuteCall(raised) == [raised |-> raised]

InitCelery ==
    /\ client = CeleryClient
    /\ request_list \in {l \in Lists(PoolSpecs, MaxBatch) : Len(l) >= 1}
    /\ futures = <<>>
    /\ results = <<>>
    /\ pc = "apply"
    /\ last = ExecuteCall("none")
    /\ cache = <<>>
    /\ now = 0
    /\ threads = <<>>
    /\ lock = None

CeleryRest == <<client, request_list, cache, now, threads, lock>>

\* job_group.apply_async(): one task per spec, in the order of the list
ApplyAsync ==
    /\ pc = "apply"
    /\ futures' = [i \in 1..Len(request_list) |-> PendingTask]
    /\ pc' = "get"
    /\ UNCHANGED <<results, last>>
    /\ UNCHANGED CeleryRest

\* a worker runs the task of one spec, whichever it picks up
RunTask ==
    /\ pc = "get"
    /\ \E i \in 1..Len(futures), fate \in CeleryFates :
        /\ futures[i].state = "PENDING"
        /\ futures' = [futures EXCEPT ![i] =
              IF fate.delivery = "lost"
              THEN CeleryTask("FAILURE", TRUE, TaskResult(FALSE, 0, <<>>, "none"))
              ELSE CeleryTask("SUCCESS", fate.delivery = "intact",
                              MakeRequestTask(client, request_list[i], fate.attempt))]
    /\ UNCHANGED <<results, last, pc>>
    /\ UNCHANGED CeleryRest

\* result_group.get(...) once every task is ready, then the deserialization
\* loop; a failed task makes get raise, which execute re-raises
GetResults ==
    /\ pc = "get"
    /\ \A i \in 1..Len(futures) : futures[i].state # "PENDING"
    /\ IF \E i \in 1..Len(futures) : futures[i].state = "FAILURE"
       THEN /\ last' = ExecuteCall("APIClientError")
            /\ UNCHANGED results
       ELSE /\ results' = FinalResponses([i \in 1..Len(futures) |-> futures[i].delivered])
            /\ UNCHANGED last
    /\ pc' = "done"
    /\ UNCHANGED futures
    /\ UNCHANGED CeleryRest

\* result_group.get(timeout=...) runs out while a task is pending
GetTimeout ==
    /\ pc = "get"
    /\ \E i \in 1..Len(futures) : futures[i].state = "PENDING"
    /\ last' = ExecuteCall("APIClientError")
    /\ pc' = "done"
    /\ UNCHANGED <<futures, results>>
    /\ UNCHANGED CeleryRest

NextCelery == ApplyAsync \/ RunTask \/ GetResults \/ GetTimeout

SpecCelery == InitCelery /\ [][NextCelery]_vars

\* the task of spec i came back from its worker
TaskReady(i) == futures[i].state = "SUCCESS"
\* the task of spec i failed: the worker caught an exception, or its result
\* does not decode
TaskFailed(i) ==
    TaskReady(i) /\ (~futures[i].delivered.decodable \/ ~futures[i].delivered.result.success)

SetOnFull(t) ==
    /\ At(t, "release") /\ threads[t].call.op = "set" /\ IsNone(threads[t].ret)
    /\ Len(threads[t].store0) = client.maxsize
    /\ threads[t].call.key \notin Keys(threads[t].store0)

\* the entries of the store a set call found that it removed
Removed(t) == {i \in 1..Len(threads[t].store0) : threads[t].store0[i].key \notin Keys(cache)}

\* C30: a set of a new key on a full backend makes room by removing the least
\* recently used entry (the head of the store, since a get hit and a set move
\* their key to the end) and keeps every entry used more recently.
C30_EvictsLeastRecentlyUsed ==
    \A t \in Threads : SetOnFull(t) => Removed(t) = {1}

\* ------------------------------------------------------- RedisCacheBackend
\* Python values: None, bool, int, str, bytes, list and dict with str keys.
\* Text and bytes are sequences of characters; the JSON words true, false and
\* null and the keys of an envelope are written as one symbol each, which no
\* str of the values below can spell.
PyValue(type, n, s, items, members) ==
    [type |-> type, n |-> n, s |-> s, items |-> items, members |-> members]
PyNone == PyValue("NoneType", 0, <<>>, <<>>, <<>>)
PyBool(b) == PyValue("bool", IF b THEN 1 ELSE 0, <<>>, <<>>, <<>>)
PyInt(n) == PyValue("int", n, <<>>, <<>>, <<>>)
PyStr(s) == PyValue("str", 0, s, <<>>, <<>>)
PyBytes(s) == PyValue("bytes", 0, s, <<>>, <<>>)
PyList(items) == PyValue("list", 0, <<>>, items, <<>>)
PyDict(members) == PyValue("dict", 0, <<>>, <<>>, members)
Member(k, v) == [k |-> k, v |-> v]

\* json.dumps(value) with the default separators ", " and ": "
RECURSIVE PyJsonDumps(_)
RECURSIVE PyJsonItems(_)
RECURSIVE PyJsonMembers(_)
PyJsonItems(items) ==
    IF items = <<>> THEN <<>>
    ELSE PyJsonDumps(Head(items))
         \o (IF Tail(items) = <<>> THEN <<>> ELSE <<",", " ">> \o PyJsonItems(Tail(items)))

PyJsonMembers(members) ==
    IF members = <<>> THEN <<>>
    ELSE <<"\"">> \o Head(members).k \o <<"\"", ":", " ">> \o PyJsonDumps(Head(members).v)
         \o (IF Tail(members) = <<>> THEN <<>>
             ELSE <<",", " ">> \o PyJsonMembers(Tail(members)))

PyJsonDumps(v) ==
    CASE v.type = "NoneType" -> <<"null">>
      [] v.type = "bool" -> IF v.n = 1 THEN <<"true">> ELSE <<"false">>
      [] v.type = "int" -> IntStr(v.n)
      [] v.type = "str" -> <<"\"">> \o v.s \o <<"\"">>
      [] v.type = "list" -> <<"[">> \o PyJsonItems(v.items) \o <<"]">>
      [] OTHER -> <<"{">> \o PyJsonMembers(v.members) \o <<"}">>

\* json.loads(bytes): the scanner of the json module
DigitChars == {ToString(d) : d \in 0..9}
DigitOf(c) == CHOOSE d \in 0..9 : ToString(d) = c

RECURSIVE Number(_)
Number(ds) ==
    IF ds = <<>> THEN 0
    ELSE 10 * Number(SubSeq(ds, 1, Len(ds) - 1)) + DigitOf(ds[Len(ds)])

Parsed(v, next) == [ok |-> TRUE, v |-> v, next |-> next]
NotJson == [ok |-> FALSE, v |-> PyNone, next |-> 0]

RECURSIVE SkipSpaces(_, _)
SkipSpaces(b, i) == IF i <= Len(b) /\ b[i] = " " THEN SkipSpaces(b, i + 1) ELSE i

RECURSIVE EndOfDigits(_, _)
EndOfDigits(b, i) ==
    IF i <= Len(b) /\ b[i] \in DigitChars THEN EndOfDigits(b, i + 1) ELSE i

ScanString(b, i) ==
    LET closing == {j \in (i + 1)..Len(b) : b[j] = "\""} IN
    IF closing = {} THEN NotJson
    ELSE LET j == CHOOSE j \in closing : \A k \in closing : j <= k IN
         Parsed(PyStr(SubSeq(b, i + 1, j - 1)), j + 1)

ScanNumber(b, i) ==
    LET start == IF b[i] = "-" THEN i + 1 ELSE i
        end == EndOfDigits(b, start)
        ds == SubSeq(b, start, end - 1) IN
    IF ds = <<>> \/ (Len(ds) > 1 /\ ds[1] = "0") THEN NotJson
    ELSE Parsed(PyInt(IF b[i] = "-" THEN 0 - Number(ds) ELSE Number(ds)), end)

RECURSIVE ScanValue(_, _)
RECURSIVE ScanItems(_, _, _)
RECURSIVE ScanMembers(_, _, _)
ScanItems(b, i0, acc) ==
    LET i == SkipSpaces(b, i0) IN
    IF i > Len(b) THEN NotJson
    ELSE IF b[i] = "]" THEN (IF acc = <<>> THEN Parsed(PyList(<<>>), i + 1) ELSE NotJson)
    ELSE LET r == ScanValue(b, i)
             j == SkipSpaces(b, r.next) IN
         IF ~r.ok \/ j > Len(b) THEN NotJson
         ELSE IF b[j] = "," THEN ScanItems(b, j + 1, Append(acc, r.v))
         ELSE IF b[j] = "]" THEN Parsed(PyList(Append(acc, r.v)), j + 1)
         ELSE NotJson

ScanMembers(b, i0, acc) ==
    LET i == SkipSpaces(b, i0) IN
    IF i > Len(b) THEN NotJson
    ELSE IF b[i] = "}" THEN (IF acc = <<>> THEN Parsed(PyDict(<<>>), i + 1) ELSE NotJson)
    ELSE IF b[i] # "\"" THEN NotJson
    ELSE LET key == ScanString(b, i)
             colon == SkipSpaces(b, key.next) IN
         IF ~key.ok \/ colon > Len(b) THEN NotJson
         ELSE IF b[colon] # ":" THEN NotJson
         ELSE LET r == ScanValue(b, colon + 1)
                  j == SkipSpaces(b, r.next) IN
              IF ~r.ok \/ j > Len(b) THEN NotJson
              ELSE IF b[j] = ","
              THEN ScanMembers(b, j + 1, Append(acc, Member(key.v.s, r.v)))
              ELSE IF b[j] = "}"
              THEN Parsed(PyDict(Append(acc, Member(key.v.s, r.v))), j + 1)
              ELSE NotJson

ScanValue(b, i0) ==
    LET i == SkipSpaces(b, i0) IN
    IF i > Len(b) THEN NotJson
    ELSE CASE b[i] = "\"" -> ScanString(b, i)
           [] b[i] = "[" -> ScanItems(b, i + 1, <<>>)
           [] b[i] = "{" -> ScanMembers(b, i + 1, <<>>)
           [] b[i] = "true" -> Parsed(PyBool(TRUE), i + 1)
           [] b[i] = "false" -> Parsed(PyBool(FALSE), i + 1)
           [] b[i] = "null" -> Parsed(PyNone, i + 1)
           [] b[i] \in DigitChars \cup {"-"} -> ScanNumber(b, i)
           [] OTHER -> NotJson

\* json.loads: one value and nothing but spaces after it, else JSONDecodeError
JsonLoads(b) ==
    LET r == ScanValue(b, 1) IN
    IF r.ok /\ SkipSpaces(b, r.next) = Len(b) + 1 THEN r ELSE NotJson

\* what the redis client sends for a value: bytes as they are, str encoded,
\* int as its decimal text; a bool is refused with DataError, a RedisError
RedisEncode(v) ==
    CASE v.type = "bool" -> [ok |-> FALSE, b |-> <<>>]
      [] v.type = "int" -> [ok |-> TRUE, b |-> IntStr(v.n)]
      [] OTHER -> [ok |-> TRUE, b |-> v.s]

\* RedisCacheBackend.set: a value that is no bytes, str, int or float is
\* dumped as JSON; setex with expire, set without; a RedisError is logged
RedisSet(store, key, value, expire, t) ==
    LET sent == IF value.type \in {"bytes", "str", "int", "bool"}
                THEN RedisEncode(value)
                ELSE [ok |-> TRUE, b |-> PyJsonDumps(value)]
        expire_at == IF ~IsNone(expire) /\ Val(expire) # 0
                     THEN Some(t + Val(expire)) ELSE None IN
    IF sent.ok THEN Append(Without(store, key), Entry(key, sent.b, expire_at))
    ELSE store

\* RedisCacheBackend.get: the stored bytes parsed as JSON, or the bytes
\* themselves when they are no JSON; None for a key that is not stored
RedisGet(store, key, t) ==
    IF key \notin Keys(store) \/ Expired(store[IndexOf(store, key)], t) THEN PyNone
    ELSE LET value == store[IndexOf(store, key)].value
             loaded == JsonLoads(value) IN
         IF loaded.ok THEN loaded.v ELSE PyBytes(value)

\* RedisCacheBackend.delete
RedisDelete(store, key) == Without(store, key)

\* the values handed to set: numbers, strings, lists and envelope dicts
RedisAtoms == {PyInt(1), PyInt(200), PyStr(<<"a">>), PyStr(<<"1">>)}
RedisItems == {PyInt(1), PyStr(<<"a">>)}
RedisLists == {PyList(l) : l \in Lists(RedisItems, MaxItems)}
RedisEnvelopes ==
    { PyDict(<<Member(<<"result">>, PyBool(r)), Member(<<"code">>, PyInt(200)),
               Member(<<"message">>, PyStr(<<"a">>)), Member(<<"data">>, d)>>) :
        r \in BOOLEAN, d \in RedisLists \cup {PyNone} }
RedisValues == RedisAtoms \cup RedisLists \cup RedisEnvelopes
RedisKeys == {"k1"}

RedisCalled(op, key, value, ret, n) ==
    [op |-> op, key |-> key, value |-> value, ret |-> ret, n |-> n]
NeverSet == [stored |-> FALSE, value |-> PyNone, expire_at |-> None]

InitRedis ==
    /\ client = [backend |-> "redis"]
    /\ cache = <<>>
    /\ now = 0
    /\ last = RedisCalled("none", "k1", PyNone, PyNone, 0)
    /\ results = [k \in RedisKeys |-> NeverSet]
    /\ request_list = <<>>
    /\ futures = <<>>
    /\ pc = "idle"
    /\ threads = <<>>
    /\ lock = None

RedisRest == <<client, request_list, futures, pc, threads, lock>>

\* backend.set(key, value, expire); results remembers the value handed over
RedisSetCall ==
    /\ last.n < MaxBackendCalls
    /\ \E key \in RedisKeys, value \in RedisValues, expire \in {None, Some(0), Some(1)} :
        /\ cache' = RedisSet(cache, key, value, expire, now)
        /\ results' = [results EXCEPT ![key] =
              [stored |-> TRUE, value |-> value,
               expire_at |-> IF ~IsNone(expire) /\ Val(expire) # 0
                             THEN Some(now + Val(expire)) ELSE None]]
        /\ last' = RedisCalled("set", key, value, PyNone, last.n + 1)
    /\ UNCHANGED now
    /\ UNCHANGED RedisRest

\* backend.get(key)
RedisGetCall ==
    /\ last.n < MaxBackendCalls
    /\ \E key \in RedisKeys :
        last' = RedisCalled("get", key, PyNone, RedisGet(cache, key, now), last.n + 1)
    /\ UNCHANGED <<cache, results, now>>
    /\ UNCHANGED RedisRest

\* backend.delete(key)
RedisDeleteCall ==
    /\ last.n < MaxBackendCalls
    /\ \E key \in RedisKeys :
        /\ cache' = RedisDelete(cache, key)
        /\ results' = [results EXCEPT ![key] = NeverSet]
        /\ last' = RedisCalled("delete", key, PyNone, PyNone, last.n + 1)
    /\ UNCHANGED now
    /\ UNCHANGED RedisRest

\* a second passes
RedisTick ==
    /\ now < MaxTime
    /\ now' = now + 1
    /\ UNCHANGED <<cache, results, last>>
    /\ UNCHANGED RedisRest

NextRedis == RedisSetCall \/ RedisGetCall \/ RedisDeleteCall \/ RedisTick

SpecRedis == InitRedis /\ [][NextRedis]_vars

\* the value last handed to set for the key is still due
DueValue(key) ==
    /\ results[key].stored
    /\ IsNone(results[key].expire_at) \/ now < Val(results[key].expire_at)

\* C31: a get of a key before the expiry of the value last set for it returns
\* a value equal to that value and of its type.
C31_RoundTrip ==
    (last.op = "get" /\ DueValue(last.key)) => last.ret = results[last.key].value

\* C31 for lists and envelope dicts alone: the values set dumps as JSON
C31_StructuredRoundTrip ==
    (last.op = "get" /\ DueValue(last.key)
        /\ results[last.key].value.type \in {"list", "dict"})
    => last.ret = results[last.key].value

\* ------------------------------------------- cache keys of different requests
\* a request spec with the keys that reach the transport: method, endpoint,
\* params, json and headers
SentSpec(method, endpoint, params, json, headers) ==
    [method |-> method, endpoint |-> endpoint, params |-> params, json |-> json,
     headers |-> headers]

\* _get_cache_key for such a spec: request_kwargs holds every key but method,
\* endpoint, cache and cache_expire, of which _generate_cache_key reads
\* params, data and json
GetCacheKeyOfSent(c, spec) ==
    LET method == Upper(Get(spec.method, "GET")) IN
    IF method \notin CACHEABLE_METHODS THEN None
    ELSE Some(GenerateCacheKey(c.base.base_url, Get(spec.endpoint, <<>>), method,
                               [params |-> spec.params, data |-> None, json |-> spec.json],
                               c.user_identifier))

\* what _make_request hands to session.request for the spec; an empty map
\* sends what no map sends
SentToTransport(c, spec) ==
    LET sent(o) == IF Truthy(o) THEN o ELSE None IN
    [url |-> Url(c.base, spec), method |-> Upper(Method(c.base, spec)),
     params |-> sent(spec.params), json |-> sent(spec.json), headers |-> sent(spec.headers)]

SentMaps == {None, Some(Dict(<<Item("a", Atom(<<"1">>))>>)), Some(Dict(<<Item("a", Atom(<<"2">>))>>))}
SentSpecs ==
    { SentSpec(Some(m), Some(e), p, None, h) :
        m \in {"GET", "HEAD"}, e \in {<<"a">>, <<"a", "/">>, <<"b">>},
        p \in SentMaps, h \in SentMaps }
    \cup { SentSpec(Some("GET"), Some(<<"a">>), None, j, None) : j \in SentMaps }
UserIdentifiers == {None, Some("u1"), Some("u2")}

\* two clients of one class on one cache, each with a spec
InitShare ==
    /\ client \in { <<NewCachingClient(NewClient(Some(0), NoRetryConfigArg, "json",
                                                 "default", 1),
                                       Some(DEFAULT_CACHE_EXPIRE), None, u1, TRUE, 1),
                      NewCachingClient(NewClient(Some(0), NoRetryConfigArg, "json",
                                                 "default", 1),
                                       Some(DEFAULT_CACHE_EXPIRE), None, u2, TRUE, 1)>> :
                    u1 \in UserIdentifiers, u2 \in UserIdentifiers }
    /\ request_list \in {<<s1, s2>> : s1 \in SentSpecs, s2 \in SentSpecs}
    /\ results = <<>>
    /\ last = NoCall
    /\ cache = <<>>
    /\ now = 0
    /\ threads = <<>>
    /\ lock = None
    /\ futures = <<>>
    /\ pc = "idle"

\* each client computes the cache key of its spec
GetCacheKeys ==
    /\ pc = "idle"
    /\ results' = <<GetCacheKeyOfSent(client[1], request_list[1]),
                    GetCacheKeyOfSent(client[2], request_list[2])>>
    /\ pc' = "done"
    /\ UNCHANGED <<client, last, cache, now, request_list, futures, threads, lock>>

NextShare == GetCacheKeys

SpecShare == InitShare /\ [][NextShare]_vars

\* both specs got a cache key, and the same one
SharedKey == pc = "done" /\ ~IsNone(results[1]) /\ results[1] = results[2]

\* C32: two requests that share a cache key are sent to the transport alike
\* (URL, method, params, body, headers) for the same user identifier.
C32_SharedKeySameRequest ==
    SharedKey =>
        /\ SentToTransport(client[1], request_list[1])
             = SentToTransport(client[2], request_list[2])
        /\ client[1].user_identifier = client[2].user_identifier

\* C32 apart from the headers and a slash at the end of the endpoint: two
\* requests that share a cache key have the same method, params, body and
\* user identifier, and URLs that differ at most in slashes at the end
C32_SharedKeySameKeyedParts ==
    SharedKey =>
        LET s1 == SentToTransport(client[1], request_list[1])
            s2 == SentToTransport(client[2], request_list[2]) IN
        /\ RStrip(s1.url) = RStrip(s2.url) /\ s1.method = s2.method
        /\ s1.params = s2.params /\ s1.json = s2.json
        /\ client[1].user_identifier = client[2].user_identifier

\* ------------------------- _make_request_and_format in the threads of a batch
\* The tasks of a batch run _make_request_and_format on one client, hence on
\* one FileWriteResponseParser; last holds the parser's _current_filename
\* (None: the attribute is absent).  A task is at one of the statements set,
\* request, parse, has (the hasattr of the finally clause), del, done.
FileTask(at, filename_used, raised) ==
    [pc |-> at, filename_used |-> filename_used, raised |-> raised]

InitRace ==
    /\ client = NewClient(Some(0), NoRetryConfigArg, "file", "default", 2)
    /\ request_list \in {<<s1, s2>> : s1 \in FileSpecs, s2 \in FileSpecs}
    /\ threads = [i \in 1..2 |-> FileTask("set", None, "none")]
    /\ last = [current_filename |-> None]
    /\ cache = <<>>
    /\ now = 0
    /\ futures = <<>>
    /\ results = <<>>
    /\ pc = "running"
    /\ lock = None

RaceRest == <<client, request_list, cache, now, futures, results, pc, lock>>

\* step 1: self.response_parser_instance._current_filename = filename_from_config
SetCurrentFilename ==
    /\ \E i \in 1..Len(threads) :
        /\ threads[i].pc = "set"
        /\ last' = IF TruthyString(request_list[i].filename)
                   THEN [current_filename |-> request_list[i].filename] ELSE last
        /\ threads' = [threads EXCEPT ![i].pc = "request"]
    /\ UNCHANGED RaceRest

\* step 2: self._make_request(...): a response goes on to parse, an
\* APIClientError or any other exception to the finally clause
RequestInTask ==
    /\ \E i \in 1..Len(threads) :
        /\ threads[i].pc = "request"
        /\ \E run \in Runs(client, request_list[i]) :
             LET made == MakeRequest(client, request_list[i], run) IN
             threads' = [threads EXCEPT
                 ![i].pc = IF made.k = "response" THEN "parse" ELSE "has",
                 ![i].raised = IF made.k = "raise" THEN made.exc ELSE "none"]
    /\ UNCHANGED last
    /\ UNCHANGED RaceRest

\* step 3: parse reads getattr(self, "_current_filename", None)
ParseInTask ==
    /\ \E i \in 1..Len(threads) :
        /\ threads[i].pc = "parse"
        /\ threads' = [threads EXCEPT
              ![i].pc = "has",
              ![i].filename_used =
                  Some(FileName(last.current_filename, Url(client, request_list[i])))]
    /\ UNCHANGED last
    /\ UNCHANGED RaceRest

\* finally: hasattr(self.response_parser_instance, "_current_filename")
HasCurrentFilename ==
    /\ \E i \in 1..Len(threads) :
        /\ threads[i].pc = "has"
        /\ threads' = [threads EXCEPT
              ![i].pc = IF IsNone(last.current_filename) THEN "done" ELSE "del"]
    /\ UNCHANGED last
    /\ UNCHANGED RaceRest

\* finally: delattr(...), an AttributeError when the attribute is gone
DelCurrentFilename ==
    /\ \E i \in 1..Len(threads) :
        /\ threads[i].pc = "del"
        /\ IF IsNone(last.current_filename)
           THEN /\ threads' = [threads EXCEPT ![i].pc = "done",
                                              ![i].raised = "AttributeError"]
                /\ UNCHANGED last
           ELSE /\ threads' = [threads EXCEPT ![i].pc = "done"]
                /\ last' = [current_filename |-> None]
    /\ UNCHANGED RaceRest

NextRace ==
    \/ SetCurrentFilename \/ RequestInTask \/ ParseInTask
    \/ HasCurrentFilename \/ DelCurrentFilename

SpecRace == InitRace /\ [][NextRace]_vars

\* C33: in a concurrent batch every parse writes the file named by its own
\* request (its filename, else the last segment of its URL), and the cleanup
\* of one request raises no error in another.
C33_OwnFilename ==
    \A i \in 1..Len(threads) :
        /\ ~IsNone(threads[i].filename_used) =>
              Val(threads[i].filename_used)
                = FileName(request_list[i].filename, Url(client, request_list[i]))
        /\ threads[i].raised # "AttributeError"

\* C33, the cleanup alone: no task ends in the AttributeError of delattr
C33_CleanupNeverRaises == \A i \in 1..Len(threads) : threads[i].raised # "AttributeError"

\* ----------------------------------------------- enable_cache / disable_cache
\* the caching client with what the toggles read and write: cache_enabled is
\* self._cache_enabled, wrapped tells whether _wrap_request_methods ran (the
\* instance has _original_request), request names the method bound to
\* self.request
ToggleClient(cache_enabled) ==
    NewCachingClient(NewClient(Some(0), NoRetryConfigArg, "json", "default", 1),
                     Some(DEFAULT_CACHE_EXPIRE), None, None, cache_enabled, MaxSize)
    @@ [wrapped |-> cache_enabled,
        request |-> IF cache_enabled THEN "cached" ELSE "original"]

ToggleSpecs ==
    { RequestSpec(m, Some(e), None, None, None, None) :
        m \in {None, Some("POST")}, e \in {<<"a">>, <<"b">>} }

\* results remembers, for the last request, self._cache_enabled and the store
\* as they were when it was called
InitToggle ==
    /\ client \in {ToggleClient(enabled) : enabled \in BOOLEAN}
    /\ last = [n |-> 0, op |-> "none",
               spec |-> RequestSpec(None, None, None, None, None, None), at |-> 0,
               raised |-> "none", envelope |-> NoEnvelope, transport_calls |-> 0,
               parser_calls |-> 0, formatter_calls |-> 0]
    /\ results = [enabled |-> client.cache_enabled, before |-> <<>>]
    /\ cache = <<>>
    /\ now = 0
    /\ threads = <<>>
    /\ lock = None
    /\ request_list = <<>>
    /\ futures = <<>>
    /\ pc = "idle"

ToggleRest == <<now, request_list, futures, pc, threads, lock>>

\* client.enable_cache()
EnableCache ==
    /\ client' = [client EXCEPT !.cache_enabled = TRUE,
                                !.request = IF client.wrapped THEN "cached" ELSE @]
    /\ UNCHANGED <<last, cache, results>>
    /\ UNCHANGED ToggleRest

\* client.disable_cache()
DisableCache ==
    /\ client' = [client EXCEPT !.cache_enabled = FALSE,
                                !.request = IF client.wrapped THEN "original" ELSE @]
    /\ UNCHANGED <<last, cache, results>>
    /\ UNCHANGED ToggleRest

\* client.request(spec): whatever self.request is bound to
RequestAfterToggle ==
    /\ last.n < MaxCalls
    /\ \E spec \in ToggleSpecs :
          IF client.request = "cached"
          THEN ProcessSingleRequest(spec)
          ELSE \E o \in OriginalRequest(client, spec) :
                  /\ last' = CalledOut("request", spec, o)
                  /\ cache' = cache
    /\ results' = [enabled |-> client.cache_enabled, before |-> cache]
    /\ UNCHANGED client
    /\ UNCHANGED ToggleRest

NextToggle == EnableCache \/ DisableCache \/ RequestAfterToggle

SpecToggle == InitToggle /\ [][NextToggle]_vars

\* the last request was made with the cache switched on / off
RequestedEnabled == last.op = "request" /\ last.raised = "none" /\ results.enabled
RequestedDisabled == last.op = "request" /\ last.raised = "none" /\ ~results.enabled

\* C34: a cacheable request made while the cache is switched on is served
\* from the store on a hit and stored on a successful miss; a request made
\* while it is switched off executes and leaves the store as it was.
C34_TogglesTakeEffect ==
    /\ (RequestedEnabled /\ CacheableSpec(last.spec)) =>
          LET key == GetCacheKey(client, last.spec)
              held == EntryOf(results.before, key) IN
          IF ~IsNone(held)
          THEN last.transport_calls = 0 /\ last.envelope = Val(held).value
          ELSE last.envelope.result =>
                  /\ ~IsNone(EntryOf(cache, key))
                  /\ Val(EntryOf(cache, key)).value = last.envelope
    /\ RequestedDisabled => (last.transport_calls > 0 /\ cache = results.before)

\* C34 for a client constructed with cache_enabled true
C34_TogglesOfWrappedClient == client.wrapped => C34_TogglesTakeEffect

\* ------------------------------------------- retries and the session's policy
\* BaseClient.__init__ for a class with the attributes default_retries and
\* retry_config, called with the arguments retries and retry_config
NewClientOfClass(default_retries, class_retry_config, retriesArg, retryConfigArg) ==
    LET merged == MergeRetryConfig(class_retry_config, retryConfigArg) IN
    [NewClient(retriesArg, retryConfigArg, "json", "default", 1) EXCEPT
        !.retries = Get(retriesArg, default_retries),
        !.retry_config = IF IsNone(retriesArg) THEN merged
                         ELSE [merged EXCEPT !.total = Val(retriesArg)]]

OptionalRetries == {None} \cup {Some(n) : n \in 0..MaxRetries}

\* request_list holds the class attributes and the arguments of the call
InitRetries ==
    /\ request_list \in
          { [default_retries |-> d, class_total |-> t, retries |-> r, total |-> a] :
              d \in 0..MaxRetries, t \in 0..MaxRetries,
              r \in OptionalRetries, a \in OptionalRetries }
    /\ client = NewClient(None, NoRetryConfigArg, "json", "default", 1)
    /\ pc = "new"
    /\ last = NoCall
    /\ cache = <<>>
    /\ now = 0
    /\ threads = <<>>
    /\ lock = None
    /\ futures = <<>>
    /\ results = <<>>

\* the constructor call: __init__ and, inside it, _create_session
ConstructClient ==
    /\ pc = "new"
    /\ client' = NewClientOfClass(request_list.default_retries,
                                  [DEFAULT_RETRY_CONFIG EXCEPT
                                      !.total = request_list.class_total],
                                  request_list.retries,
                                  [total |-> request_list.total, allowed_methods |-> None])
    /\ pc' = "constructed"
    /\ UNCHANGED <<last, cache, now, request_list, futures, results, threads, lock>>

NextRetries == ConstructClient

SpecRetries == InitRetries /\ [][NextRetries]_vars

\* C35: the retry limit of the policy that serves the session's requests is
\* the client's resolved retries, and it retries exactly when retries > 0.
C35_SessionLimitIsRetries ==
    pc = "constructed" =>
        /\ SessionRetry(client).total = client.retries
        /\ (SessionRetry(client).total > 0) <=> (client.retries > 0)

\* C35 for a constructor call that passes retries
C35_LimitOfExplicitRetries ==
    (pc = "constructed" /\ ~IsNone(request_list.retries)) =>
        /\ client.retries = Val(request_list.retries)
        /\ SessionRetry(client).total = client.retries

\* ------------------------------------- no formatter and the default formatter
\* C36: with no formatter configured the envelope returned has, for every
\* outcome, the success flag and the code of the envelope the
\* DefaultResponseFormatter makes of the same outcome.
C36_NoFormatterAsDefault ==
    (Enveloped /\ client.formatter = "none") =>
        LET default == DefaultFormat(last.out.made, None, last.out.parse_error) IN
        /\ last.out.envelope.result = default.result
        /\ last.out.envelope.code = default.code

\* C36 apart from HTTP errors: responses, parse errors, timeouts and network
\* errors get the flag and code of the default formatter
C36_NoFormatterAsDefaultButHttpError ==
    (Enveloped /\ client.formatter = "none"
        /\ last.out.made.error.type # "APIClientHTTPError") =>
        LET default == DefaultFormat(last.out.made, None, last.out.parse_error) IN
        /\ last.out.envelope.result = default.result
        /\ last.out.envelope.code = default.code

\* ------------------------------------------- envelopes shared with the cache
\* InMemoryCacheBackend keeps the object it is given and get returns that
\* object: results is the heap of envelope dicts (what each holds now and
\* what it held when it was stored, if it was), the store holds their ids.
EnvelopeObject(holds, stored) == [holds |-> holds, stored |-> stored]

AliasSpecs == { RequestSpec(None, Some(e), None, None, None, None) : e \in {<<"a">>, <<"b">>} }

InitAlias ==
    /\ client \in { NewCachingClient(NewClient(Some(0), NoRetryConfigArg, "json",
                                               "default", 1),
                                     Some(DEFAULT_CACHE_EXPIRE), None, None, TRUE, m) :
                    m \in 1..MaxSize }
    /\ results = <<>>
    /\ cache = <<>>
    /\ last = [n |-> 0, op |-> "none", hit |-> FALSE, returned |-> 0]
    /\ now = 0
    /\ threads = <<>>
    /\ lock = None
    /\ request_list = <<>>
    /\ futures = <<>>
    /\ pc = "idle"

AliasRest == <<client, now, request_list, futures, pc, threads, lock>>

\* client.request(spec), _process_single_request: a hit returns the stored
\* object; a miss returns the dict _original_request made and, when it is a
\* success, hands that same dict to cache_backend.set
RequestSharing ==
    /\ last.n < MaxCalls
    /\ \E spec \in AliasSpecs :
        LET key == Val(GetCacheKey(client, spec))
            got == CacheGet(cache, key, now) IN
        IF ~IsNone(got.value)
        THEN /\ last' = [n |-> last.n + 1, op |-> "request", hit |-> TRUE,
                         returned |-> Val(got.value)]
             /\ cache' = got.store
             /\ UNCHANGED results
        ELSE \E o \in OriginalRequest(client, spec) :
                LET id == Len(results) + 1
                    stores == o.raised = "none" /\ o.envelope.result IN
                /\ o.raised = "none"
                /\ results' = Append(results,
                        EnvelopeObject(o.envelope,
                                       IF stores THEN Some(o.envelope) ELSE None))
                /\ cache' = IF stores
                            THEN CacheSet(got.store, client.maxsize, key, id,
                                          ExpireFor(client, spec), now)
                            ELSE got.store
                /\ last' = [n |-> last.n + 1, op |-> "request", hit |-> FALSE,
                            returned |-> id]
    /\ UNCHANGED AliasRest

\* the caller changes an envelope it was returned: envelope["data"] = ...
ChangeReturned ==
    /\ \E id \in 1..Len(results) :
        /\ results[id].holds.data # Some(<<"changed">>)
        /\ results' = [results EXCEPT ![id].holds.data = Some(<<"changed">>)]
    /\ last' = [last EXCEPT !.op = "change"]
    /\ UNCHANGED cache
    /\ UNCHANGED AliasRest

NextAlias == RequestSharing \/ ChangeReturned

SpecAlias == InitAlias /\ [][NextAlias]_vars

\* C37: whatever the caller does to the envelopes it was returned, every
\* stored entry holds the envelope as it was when it was stored, and a hit
\* returns it so.
C37_StoredEnvelopeUnchanged ==
    /\ \A i \in 1..Len(cache) :
          Some(results[cache[i].value].holds) = results[cache[i].value].stored
    /\ (last.op = "request" /\ last.hit) =>
          Some(results[last.returned].holds) = results[last.returned].stored

\* ------------------------------------------------------ user-specific clients
\* CacheClientMixin.__init__ of a class with the attribute is_user_specific:
\* the ValueError it raises, or "none"
ConstructUserClient(is_user_specific, user_identifier) ==
    IF is_user_specific /\ IsNone(user_identifier) THEN "ValueError" ELSE "none"

UserClient(user_identifier) ==
    NewCachingClient(NewClient(Some(0), NoRetryConfigArg, "json", "default", 1),
                     Some(DEFAULT_CACHE_EXPIRE), None, user_identifier, TRUE, 1)

UserIdentifierArgs == {None, Some(""), Some("u1"), Some("u2")}

\* request_list: the class attribute and the user_identifier of the first
\* client, the user_identifier of a second client, and the spec both are asked
InitUser ==
    /\ request_list \in
          { [is_user_specific |-> s, user_identifier |-> u, other |-> v, spec |-> spec] :
              s \in BOOLEAN, u \in UserIdentifierArgs, v \in UserIdentifierArgs,
              spec \in ToggleSpecs }
    /\ client = UserClient(None)
    /\ results = [raised |-> "none", key |-> None, other_key |-> None]
    /\ pc = "new"
    /\ last = NoCall
    /\ cache = <<>>
    /\ now = 0
    /\ threads = <<>>
    /\ lock = None
    /\ futures = <<>>

\* the first client is constructed and, if that succeeds, both clients
\* compute the cache key of the spec
ConstructAndGetKeys ==
    /\ pc = "new"
    /\ LET raised == ConstructUserClient(request_list.is_user_specific,
                                         request_list.user_identifier) IN
       IF raised # "none"
       THEN /\ results' = [raised |-> raised, key |-> None, other_key |-> None]
            /\ UNCHANGED client
       ELSE /\ client' = UserClient(request_list.user_identifier)
            /\ results' = [raised |-> "none",
                           key |-> GetCacheKey(client', request_list.spec),
                           other_key |-> GetCacheKey(UserClient(request_list.other),
                                                     request_list.spec)]
    /\ pc' = "done"
    /\ UNCHANGED <<last, cache, now, request_list, futures, threads, lock>>

NextUser == ConstructAndGetKeys

SpecUser == InitUser /\ [][NextUser]_vars

\* C38: a user-specific client is not constructed without a user identifier,
\* and the key it gives a spec differs from the key any client with another
\* user identifier, or with none, gives the same spec.
C38_KeysBoundToUser ==
    (pc = "done" /\ request_list.is_user_specific) =>
        /\ IsNone(request_list.user_identifier) => results.raised = "ValueError"
        /\ (results.raised = "none" /\ ~IsNone(results.key)
              /\ request_list.other # request_list.user_identifier)
           => results.key # results.other_key

\* C38 for user identifiers that are not empty
C38_KeysBoundToNonEmptyUser ==
    (pc = "done" /\ request_list.is_user_specific
        /\ request_list.user_identifier # Some("") /\ request_list.other # Some("")) =>
        /\ IsNone(request_list.user_identifier) => results.raised = "ValueError"
        /\ (results.raised = "none" /\ ~IsNone(results.key)
              /\ request_list.other # request_list.user_identifier)
           => results.key # results.other_key

\* ------------------------------------------- errors rebuilt from Celery tasks
\* the task of spec i came back with the serialized error of a request
WorkerError(i) ==
    /\ TaskFailed(i) /\ futures[i].delivered.decodable
    /\ futures[i].delivered.result.type \in
          {"APIClientTimeoutError", "APIClientHTTPError", "APIClientNetworkError"}

\* C39: the error at the slot of a task whose request failed in the worker is
\* of the kind raised there (timeout, HTTP status, network) and, for an HTTP
\* status error, carries the status of the response.
C39_SameErrorKind ==
    (pc = "done" /\ last.raised = "none") =>
        \A i \in 1..Len(results) :
            WorkerError(i) =>
                /\ results[i].type = futures[i].delivered.result.type
                /\ results[i].type = "APIClientHTTPError" => RaisesForStatus(results[i].s)

\* C39, the kind of HTTP status errors alone
C39_HttpErrorKindKept ==
    (pc = "done" /\ last.raised = "none") =>
        \A i \in 1..Len(results) :
            (WorkerError(i) /\ futures[i].delivered.result.type = "APIClientHTTPError")
                => results[i].type = "APIClientHTTPError"

\* ------------------------------------------------- termination of a batch
\* The calling thread goes on submitting, collecting and returning, a free
\* worker thread takes a queued task, and every task ends, since each call of
\* the transport and of the parser does.
InitPoolLive ==
    /\ client \in PoolClients
    /\ request_list \in {l \in Lists(PoolSpecs, MaxLiveBatch) : Len(l) >= 1}
    /\ results = [i \in 1..Len(request_list) |-> None]
    /\ futures = <<>>
    /\ pc = "submit"
    /\ last = NoCall
    /\ cache = <<>>
    /\ now = 0
    /\ threads = <<>>
    /\ lock = None

SpecPoolLive ==
    /\ InitPoolLive /\ [][NextPool]_vars
    /\ WF_vars(Submit) /\ WF_vars(Start) /\ WF_vars(Finish)
    /\ WF_vars(Collect) /\ WF_vars(Return)

\* C40: execute eventually returns, for every list of N >= 1 specs and every
\* max_workers >= 1, and on return each of the N slots holds an envelope or
\* an error.
C40_ExecuteReturns ==
    <>(/\ pc = "returned"
       /\ Len(results) = Len(request_list)
       /\ \A i \in 1..Len(request_list) : ~IsNone(results[i]))

\* a batch of more specs than worker threads, one of whose tasks failed, has
\* returned
C40_Witness ==
    /\ pc = "returned"
    /\ Len(request_list) > client.max_workers
    /\ \E i \in 1..Len(request_list) : futures[i].out.raised # "none"
    /\ \A i \in 1..Len(request_list) : ~IsNone(results[i])
====
